---- MODULE Spec2Model ----
(***************************************************************************)
(* Vigil network monitor: the connectivity tracker (monitor/state.rs), the *)
(* outage record (models.rs), the monitor loop that drives the tracker     *)
(* (main.rs, cmd_start), the probe scheduler (monitor/ping.rs) and the     *)
(* path analyzer (monitor/traceroute.rs).                                  *)
(*                                                                         *)
(* Option<T> values are sequences: None is << >>, Some(x) is <<x>>.        *)
(* Time is a clock of whole milliseconds; duration_secs holds the          *)
(* millisecond count that the code divides by 1000.0.                      *)
(***************************************************************************)
EXTENDS Integers, Sequences, FiniteSets, TLC

\* ------------------------------------------------------------------ bounds
MaxThreshold == 2   \* thresholds are drawn from 1..MaxThreshold (plus the defaults)
Beyond == 0         \* the u32 streak counters run this far past the largest threshold
MaxTime == 1        \* cap of the clock
MaxOutages == 1     \* cap of the outages one monitor run opens
MaxHops == 1        \* longest traceroute report drawn
MaxLimping == 2     \* outcomes followed past the cap once a limping run is Offline
MaxTicks == 2       \* ticks the scheduler begins while its consumer is alive
MaxDue == 1         \* ticks the ticker can have due at once
ChannelCapacity == 2  \* mpsc::channel(100) in the code: kept this short so that it fills
MaxLines == 3       \* longest traceroute report parsed on its own, and its ordinals
MaxGivenHops == 2   \* most hops of a TracerouteResult built by a caller
MaxHealing == 2     \* outcomes followed past the caps once the network has healed

\* ------------------------------------------------------- program constants
default_degraded_threshold == 3
default_offline_threshold == 5
default_recovery_threshold == 2

None == << >>
Some(x) == <<x>>

\* config.rs default_targets(): the two default endpoints; the third address
\* is one no tracker is configured with.
GoogleDns == "8.8.8.8"
Cloudflare == "1.1.1.1"
UnknownAddress == "9.9.9.9"
Gateway == "192.168.1.1"

TargetLists == { <<GoogleDns>>, <<GoogleDns, Cloudflare>> }

Range(s) == { s[i] : i \in DOMAIN s }

Orders(S) == { s \in [1..Cardinality(S) -> S] : Range(s) = S }

DefaultMonitorConfig ==
    [ degraded_threshold |-> default_degraded_threshold,
      offline_threshold  |-> default_offline_threshold,
      recovery_threshold |-> default_recovery_threshold ]

MonitorConfigs ==
    [ degraded_threshold : 1..MaxThreshold,
      offline_threshold  : 1..MaxThreshold,
      recovery_threshold : 1..MaxThreshold ] \cup { DefaultMonitorConfig }

\* A PingResult as far as the tracker reads it: the address and the verdict.
PingResult(target, success) == [ target |-> target, success |-> success ]

\* ---------------------------------------------------------------- models.rs
Outage_new(affected_targets, t) ==
    [ id               |-> None,
      start_time       |-> t,
      end_time         |-> None,
      duration_secs    |-> None,
      affected_targets |-> affected_targets,
      failing_hop      |-> None,
      failing_hop_ip   |-> None,
      notes            |-> None ]

Outage_end(outage, t) ==
    [ outage EXCEPT !.end_time = Some(t),
                    !.duration_secs = Some(t - outage.start_time) ]

\* ------------------------------------------------------- monitor/state.rs
NoChange == [ kind |-> "NoChange" ]
Degraded(failing) == [ kind |-> "Degraded", failing_targets |-> failing ]
Offline(outage) == [ kind |-> "Offline", outage |-> outage ]
Recovered(outage) == [ kind |-> "Recovered", outage |-> outage ]

TargetState_new(ip) ==
    [ target |-> ip,
      last_result |-> None,
      consecutive_failures |-> 0,
      consecutive_successes |-> 0 ]

\* Mutant: a failure leaves consecutive_successes as it was.
TargetState_update_KeepsSuccesses(ts, result) ==
    IF result.success
    THEN [ ts EXCEPT !.consecutive_failures = 0,
                     !.consecutive_successes = @ + 1,
                     !.last_result = Some(result) ]
    ELSE [ ts EXCEPT !.consecutive_failures = @ + 1,
                     !.last_result = Some(result) ]

\* Mutant: a success leaves consecutive_failures as it was.
TargetState_update_KeepsFailures(ts, result) ==
    IF result.success
    THEN [ ts EXCEPT !.consecutive_successes = @ + 1,
                     !.last_result = Some(result) ]
    ELSE [ ts EXCEPT !.consecutive_successes = 0,
                     !.consecutive_failures = @ + 1,
                     !.last_result = Some(result) ]

TargetState_update(ts, result) ==
    IF result.success
    THEN [ ts EXCEPT !.consecutive_failures = 0,
                     !.consecutive_successes = @ + 1,
                     !.last_result = Some(result) ]
    ELSE [ ts EXCEPT !.consecutive_successes = 0,
                     !.consecutive_failures = @ + 1,
                     !.last_result = Some(result) ]

is_failing(ts) == ts.consecutive_failures > 0

\* values_order is the iteration order of the HashMap target_states: fixed
\* when the map is built, unspecified by the language.
\* Mutant: the failure counter starts at 1.
ConnectivityTracker_new_CountsFromOne(config, targets, order) ==
    [ state |-> "Online",
      config |-> config,
      target_states |-> [ ip \in Range(targets) |-> TargetState_new(ip) ],
      values_order |-> order,
      current_outage |-> None,
      aggregate_failures |-> 1,
      aggregate_successes |-> 0 ]

ConnectivityTracker_new(config, targets, order) ==
    [ state |-> "Online",
      config |-> config,
      target_states |-> [ ip \in Range(targets) |-> TargetState_new(ip) ],
      values_order |-> order,
      current_outage |-> None,
      aggregate_failures |-> 0,
      aggregate_successes |-> 0 ]

\* Mutant: the is_failing filter forgotten.
failing_targets_Unfiltered(t) == t.values_order

failing_targets(t) ==
    SelectSeq(t.values_order, LAMBDA ip : is_failing(t.target_states[ip]))

\* The public accessor failing_targets(): the failing entries themselves.
ConnectivityTracker_failing_targets(t) ==
    LET failing == SelectSeq(t.values_order,
                             LAMBDA ip : is_failing(t.target_states[ip]))
    IN  [ i \in DOMAIN failing |-> t.target_states[failing[i]] ]

start_outage(t, affected_targets, now_) ==
    LET outage == Outage_new(affected_targets, now_)
    IN  [ tracker |-> [ t EXCEPT !.current_outage = Some(outage) ],
          ret |-> outage ]

\* Mutant: the slot read (as_ref) where the code takes it.
end_outage_KeepsSlot(t, now_) ==
    IF t.current_outage # None
    THEN [ tracker |-> t,
           ret |-> Some(Outage_end(t.current_outage[1], now_)) ]
    ELSE [ tracker |-> t, ret |-> None ]

end_outage(t, now_) ==
    IF t.current_outage # None
    THEN [ tracker |-> [ t EXCEPT !.current_outage = None ],
           ret |-> Some(Outage_end(t.current_outage[1], now_)) ]
    ELSE [ tracker |-> t, ret |-> None ]

\* Mutant: the outcome applied to every endpoint's entry.
UpdateTarget_TouchesAll(t, result) ==
    IF result.target \in DOMAIN t.target_states
    THEN [ t EXCEPT !.target_states =
               [ ip \in DOMAIN @ |-> TargetState_update(@[ip], result) ] ]
    ELSE t

UpdateTarget(t, result) ==
    IF result.target \in DOMAIN t.target_states
    THEN [ t EXCEPT !.target_states[result.target] =
                        TargetState_update(@, result) ]
    ELSE t

\* Mutant: an all-healthy tick does not reset aggregate_failures.
UpdateAggregate_KeepsFailures(t, any_failing) ==
    IF any_failing
    THEN [ t EXCEPT !.aggregate_successes = 0, !.aggregate_failures = @ + 1 ]
    ELSE [ t EXCEPT !.aggregate_successes = @ + 1 ]

\* Mutant: a failing tick does not reset aggregate_successes.
UpdateAggregate_KeepsSuccesses(t, any_failing) ==
    IF any_failing
    THEN [ t EXCEPT !.aggregate_failures = @ + 1 ]
    ELSE [ t EXCEPT !.aggregate_failures = 0, !.aggregate_successes = @ + 1 ]

UpdateAggregate(t, any_failing) ==
    IF any_failing
    THEN [ t EXCEPT !.aggregate_successes = 0, !.aggregate_failures = @ + 1 ]
    ELSE [ t EXCEPT !.aggregate_failures = 0, !.aggregate_successes = @ + 1 ]

\* Mutant: Online checks the offline threshold too and skips Degraded.
OnlineArm_JumpsOffline(t, failing) ==
    IF t.aggregate_failures >= t.config.offline_threshold
    THEN [ tracker |-> [ t EXCEPT !.state = "Offline" ], event |-> NoChange ]
    ELSE IF t.aggregate_failures >= t.config.degraded_threshold
    THEN [ tracker |-> [ t EXCEPT !.state = "Degraded" ],
           event |-> Degraded(failing) ]
    ELSE [ tracker |-> t, event |-> NoChange ]

\* Mutant: the degraded threshold compared one failure early.
OnlineArm_OneEarly(t, failing) ==
    IF t.aggregate_failures + 1 >= t.config.degraded_threshold
    THEN [ tracker |-> [ t EXCEPT !.state = "Degraded" ],
           event |-> Degraded(failing) ]
    ELSE [ tracker |-> t, event |-> NoChange ]

\* Mutant: > where the code has >=.
OnlineArm_Strict(t, failing) ==
    IF t.aggregate_failures > t.config.degraded_threshold
    THEN [ tracker |-> [ t EXCEPT !.state = "Degraded" ],
           event |-> Degraded(failing) ]
    ELSE [ tracker |-> t, event |-> NoChange ]

\* Mutant: the Degraded event lists every configured endpoint.
OnlineArm_ListsAll(t, failing) ==
    IF t.aggregate_failures >= t.config.degraded_threshold
    THEN [ tracker |-> [ t EXCEPT !.state = "Degraded" ],
           event |-> Degraded(t.values_order) ]
    ELSE [ tracker |-> t, event |-> NoChange ]

OnlineArm(t, failing) ==
    IF t.aggregate_failures >= t.config.degraded_threshold
    THEN [ tracker |-> [ t EXCEPT !.state = "Degraded" ],
           event |-> Degraded(failing) ]
    ELSE [ tracker |-> t, event |-> NoChange ]

\* Mutant: > where the code has >= on the offline threshold.
DegradedArm_StrictOffline(t, failing, now_) ==
    IF failing = << >> /\ t.aggregate_successes >= t.config.recovery_threshold
    THEN [ tracker |-> [ t EXCEPT !.state = "Online", !.aggregate_failures = 0 ],
           event |-> NoChange ]
    ELSE IF t.aggregate_failures > t.config.offline_threshold
    THEN LET s == start_outage([ t EXCEPT !.state = "Offline" ], failing, now_)
         IN  [ tracker |-> s.tracker, event |-> Offline(s.ret) ]
    ELSE [ tracker |-> t, event |-> NoChange ]

\* Mutant: recovery from Degraded reported as the end of an outage.
DegradedArm_ReportsRecovery(t, failing, now_) ==
    IF failing = << >> /\ t.aggregate_successes >= t.config.recovery_threshold
    THEN [ tracker |-> [ t EXCEPT !.state = "Online", !.aggregate_failures = 0 ],
           event |-> Recovered(Outage_end(Outage_new(failing, now_), now_)) ]
    ELSE IF t.aggregate_failures >= t.config.offline_threshold
    THEN LET s == start_outage([ t EXCEPT !.state = "Offline" ], failing, now_)
         IN  [ tracker |-> s.tracker, event |-> Offline(s.ret) ]
    ELSE [ tracker |-> t, event |-> NoChange ]

\* Mutant: Degraded->Offline reports an Outage without putting it in the slot.
DegradedArm_OutageNotStored(t, failing, now_) ==
    IF failing = << >> /\ t.aggregate_successes >= t.config.recovery_threshold
    THEN [ tracker |-> [ t EXCEPT !.state = "Online", !.aggregate_failures = 0 ],
           event |-> NoChange ]
    ELSE IF t.aggregate_failures >= t.config.offline_threshold
    THEN [ tracker |-> [ t EXCEPT !.state = "Offline" ],
           event |-> Offline(Outage_new(failing, now_)) ]
    ELSE [ tracker |-> t, event |-> NoChange ]

DegradedArm(t, failing, now_) ==
    IF failing = << >> /\ t.aggregate_successes >= t.config.recovery_threshold
    THEN [ tracker |-> [ t EXCEPT !.state = "Online", !.aggregate_failures = 0 ],
           event |-> NoChange ]
    ELSE IF t.aggregate_failures >= t.config.offline_threshold
    THEN LET s == start_outage([ t EXCEPT !.state = "Offline" ], failing, now_)
         IN  [ tracker |-> s.tracker, event |-> Offline(s.ret) ]
    ELSE [ tracker |-> t, event |-> NoChange ]

\* Mutant: Offline keeps comparing the offline threshold and opens an Outage
\* for every further failure.
OfflineArm_Reopens(t, failing, now_) ==
    IF failing = << >> /\ t.aggregate_successes >= t.config.recovery_threshold
    THEN LET e == end_outage(t, now_)
         IN  IF e.ret # None
             THEN [ tracker |-> [ e.tracker EXCEPT !.state = "Online",
                                                   !.aggregate_failures = 0 ],
                    event |-> Recovered(e.ret[1]) ]
             ELSE [ tracker |-> e.tracker, event |-> NoChange ]
    ELSE IF t.aggregate_failures >= t.config.offline_threshold
    THEN LET s == start_outage(t, failing, now_)
         IN  [ tracker |-> s.tracker, event |-> Offline(s.ret) ]
    ELSE [ tracker |-> t, event |-> NoChange ]

\* Mutant: while Offline the Outage follows the failing set.
OfflineArm_TracksFailing(t, failing, now_) ==
    IF failing = << >> /\ t.aggregate_successes >= t.config.recovery_threshold
    THEN LET e == end_outage(t, now_)
         IN  IF e.ret # None
             THEN [ tracker |-> [ e.tracker EXCEPT !.state = "Online",
                                                   !.aggregate_failures = 0 ],
                    event |-> Recovered(e.ret[1]) ]
             ELSE [ tracker |-> e.tracker, event |-> NoChange ]
    ELSE [ tracker |-> IF t.current_outage # None /\ failing # << >>
                       THEN [ t EXCEPT !.current_outage[1].affected_targets = failing ]
                       ELSE t,
           event |-> NoChange ]

\* Mutant: while Offline every further failing call announces the Outage again.
OfflineArm_AnnouncesAgain(t, failing, now_) ==
    IF failing = << >> /\ t.aggregate_successes >= t.config.recovery_threshold
    THEN LET e == end_outage(t, now_)
         IN  IF e.ret # None
             THEN [ tracker |-> [ e.tracker EXCEPT !.state = "Online",
                                                   !.aggregate_failures = 0 ],
                    event |-> Recovered(e.ret[1]) ]
             ELSE [ tracker |-> e.tracker, event |-> NoChange ]
    ELSE IF failing # << >> /\ t.current_outage # None
    THEN [ tracker |-> t, event |-> Offline(t.current_outage[1]) ]
    ELSE [ tracker |-> t, event |-> NoChange ]

OfflineArm(t, failing, now_) ==
    IF failing = << >> /\ t.aggregate_successes >= t.config.recovery_threshold
    THEN LET e == end_outage(t, now_)
         IN  IF e.ret # None
             THEN [ tracker |-> [ e.tracker EXCEPT !.state = "Online",
                                                   !.aggregate_failures = 0 ],
                    event |-> Recovered(e.ret[1]) ]
             ELSE [ tracker |-> e.tracker, event |-> NoChange ]
    ELSE [ tracker |-> t, event |-> NoChange ]

\* Mutant: a majority vote: an aggregate failure only when every endpoint fails.
process_AllDown(t, result, now_) ==
    LET t1 == UpdateTarget(t, result)
        failing == failing_targets(t1)
        t2 == UpdateAggregate(t1, Len(failing) = Len(t1.values_order))
    IN  CASE t2.state = "Online" -> OnlineArm(t2, failing)
          [] t2.state = "Degraded" -> DegradedArm(t2, failing, now_)
          [] t2.state = "Offline" -> OfflineArm(t2, failing, now_)

\* Mutant: the aggregate counters follow the outcome processed, not the
\* failing set.
process_CountsOutcome(t, result, now_) ==
    LET t1 == UpdateTarget(t, result)
        failing == failing_targets(t1)
        t2 == UpdateAggregate(t1, ~result.success)
    IN  CASE t2.state = "Online" -> OnlineArm(t2, failing)
          [] t2.state = "Degraded" -> DegradedArm(t2, failing, now_)
          [] t2.state = "Offline" -> OfflineArm(t2, failing, now_)

\* Mutant: an outcome for an address that is not configured is dropped.
process_DropsUnknown(t, result, now_) ==
    IF result.target \notin DOMAIN t.target_states
    THEN [ tracker |-> t, event |-> NoChange ]
    ELSE LET t1 == UpdateTarget(t, result)
             failing == failing_targets(t1)
             t2 == UpdateAggregate(t1, failing # << >>)
         IN  CASE t2.state = "Online" -> OnlineArm(t2, failing)
               [] t2.state = "Degraded" -> DegradedArm(t2, failing, now_)
               [] t2.state = "Offline" -> OfflineArm(t2, failing, now_)

process(t, result, now_) ==
    LET t1 == UpdateTarget(t, result)
        failing == failing_targets(t1)
        t2 == UpdateAggregate(t1, failing # << >>)
    IN  CASE t2.state = "Online" -> OnlineArm(t2, failing)
          [] t2.state = "Degraded" -> DegradedArm(t2, failing, now_)
          [] t2.state = "Offline" -> OfflineArm(t2, failing, now_)

\* --------------------------------------------------- monitor/traceroute.rs
\* A TracerouteHop (hostname, never set under -n, is left out). A latency is
\* the f64 counted in thousandths of a millisecond.
TimeoutHop(n) ==
    [ hop_number |-> n, ip |-> None, latency_ms |-> None, timeout |-> TRUE ]
RespondingHop(n, ip, latency_ms) ==
    [ hop_number |-> n, ip |-> Some(ip), latency_ms |-> latency_ms,
      timeout |-> FALSE ]

\* The report of traceroute is a sequence of lines, a line the sequence of its
\* parts (split_whitespace). str::parse::<u8>: the numerals of 0..255 (a
\* leading sign or leading zeros, which traceroute does not print, left out).
u8_of ==
    [ s \in { ToString(n) : n \in 0..255 } |-> CHOOSE n \in 0..255 : ToString(n) = s ]

parse_u8(part) == IF part \in DOMAIN u8_of THEN Some(u8_of[part]) ELSE None

\* str::parse::<f64> on the parts a report holds: the two latencies of the
\* reports drawn and the whole numbers; an address, "*" and "ms" are no f64.
f64_of ==
    [ s \in { "1.234", "5.678" } \cup { ToString(n) : n \in 0..255 } |->
        IF s = "1.234" THEN 1234
        ELSE IF s = "5.678" THEN 5678
        ELSE 1000 * u8_of[s] ]

parse_f64(part) == IF part \in DOMAIN f64_of THEN Some(f64_of[part]) ELSE None

\* The latency of a hop line: the first part "ms", not the line's first part,
\* whose predecessor is an f64 (find_map), if there is one.
latency_ms(parts) ==
    LET hits == { i \in 2..Len(parts) :
                    parts[i] = "ms" /\ parse_f64(parts[i - 1]) # None }
    IN  IF hits = {} THEN None
        ELSE parse_f64(parts[(CHOOSE i \in hits : \A j \in hits : i <= j) - 1])

\* Mutant: an ordinal on its own is taken for a timeout hop.
parse_hop_line_BareOrdinal(parts) ==
    IF parts = << >> THEN None
    ELSE IF parse_u8(parts[1]) = None THEN None
    ELSE IF Len(parts) >= 2 /\ parts[2] # "*"
         THEN Some(RespondingHop(parse_u8(parts[1])[1], parts[2], latency_ms(parts)))
    ELSE Some(TimeoutHop(parse_u8(parts[1])[1]))

\* Mutant: a line of asterisks is no hop.
parse_hop_line_SkipsTimeouts(parts) ==
    IF parts = << >> THEN None
    ELSE IF parse_u8(parts[1]) = None THEN None
    ELSE IF Len(parts) >= 2 /\ parts[2] = "*" THEN None
    ELSE IF Len(parts) >= 2
         THEN Some(RespondingHop(parse_u8(parts[1])[1], parts[2], latency_ms(parts)))
    ELSE None

parse_hop_line(parts) ==
    IF parts = << >> THEN None
    ELSE IF parse_u8(parts[1]) = None THEN None
    ELSE IF Len(parts) >= 2 /\ parts[2] = "*"
         THEN Some(TimeoutHop(parse_u8(parts[1])[1]))
    ELSE IF Len(parts) >= 2
         THEN Some(RespondingHop(parse_u8(parts[1])[1], parts[2], latency_ms(parts)))
    ELSE None

\* line.starts_with("traceroute to")
is_header(parts) == Len(parts) >= 2 /\ parts[1] = "traceroute" /\ parts[2] = "to"

RECURSIVE parse_traceroute_output(_)
parse_traceroute_output(lines) ==
    IF lines = << >>
    THEN << >>
    ELSE LET line == Head(lines)
             hop == IF is_header(line) \/ line = << >>
                    THEN None ELSE parse_hop_line(line)
             rest == parse_traceroute_output(Tail(lines))
         IN  IF hop # None THEN << hop[1] >> \o rest ELSE rest

\* Mutant: the target's address looked for in any hop.
check_reached_target_AnyHop(hops, target) ==
    \E i \in DOMAIN hops : hops[i].ip = Some(target)

check_reached_target(hops, target) ==
    /\ hops # << >>
    /\ hops[Len(hops)].ip # None
    /\ hops[Len(hops)].ip[1] = target

\* Mutant: the early return for a trace that reached its target forgotten.
identify_failing_hop_IgnoresSuccess(trace) ==
    LET responding == { i \in DOMAIN trace.hops :
                          ~trace.hops[i].timeout /\ trace.hops[i].ip # None }
    IN  IF responding = {}
        THEN None
        ELSE LET last == CHOOSE i \in responding : \A j \in responding : j <= i
             IN  Some(<< trace.hops[last].hop_number, trace.hops[last].ip[1] >>)

\* Mutant: find() without rev(): the first responding hop.
identify_failing_hop_First(trace) ==
    IF trace.success
    THEN None
    ELSE LET responding == { i \in DOMAIN trace.hops :
                               ~trace.hops[i].timeout /\ trace.hops[i].ip # None }
         IN  IF responding = {}
             THEN None
             ELSE LET first == CHOOSE i \in responding : \A j \in responding : i <= j
                  IN  Some(<< trace.hops[first].hop_number, trace.hops[first].ip[1] >>)

identify_failing_hop(trace) ==
    IF trace.success
    THEN None
    ELSE LET responding == { i \in DOMAIN trace.hops :
                               ~trace.hops[i].timeout /\ trace.hops[i].ip # None }
         IN  IF responding = {}
             THEN None
             ELSE LET last == CHOOSE i \in responding : \A j \in responding : j <= i
                  IN  Some(<< trace.hops[last].hop_number, trace.hops[last].ip[1] >>)

\* HopAnalyzer::trace(target) for what Command::output() gave: None when
\* traceroute could not be run, else the lines of its stdout.
HopAnalyzer_trace(target, output) ==
    IF output = None
    THEN [ target |-> target, hops |-> << >>, success |-> FALSE ]
    ELSE LET hops == parse_traceroute_output(output[1])
         IN  [ target |-> target, hops |-> hops,
               success |-> check_reached_target(hops, target) ]

\* The reports the monitor loop's traceroute is given: up to MaxHops lines,
\* numbered in order, each a timeout or an answer from the gateway or from the
\* target.
ReportsOfLength(n, target) ==
    { lines \in [ 1..n -> { << ToString(i), "*" >> : i \in 1..n } \cup
                          { << ToString(i), ip, "1.234", "ms" >> :
                              i \in 1..n, ip \in {Gateway, target} } ] :
        \A i \in 1..n : lines[i][1] = ToString(i) }

\* What analyzer.trace(target) can return in the monitor loop.
trace(target) ==
    { HopAnalyzer_trace(target, output) :
        output \in { None } \cup
                   { Some(lines) :
                       lines \in UNION { ReportsOfLength(n, target) : n \in 0..MaxHops } } }

\* -------------------------------------------------------------------- db.rs
\* The outages table: a sequence of rows, the rowid of a row its position.
insert_outage(rows, outage) ==
    Append(rows, [ outage EXCEPT !.id = Some(Len(rows) + 1) ])

\* Mutant: the UPDATE leaves end_time and duration_secs out of its SET list.
update_outage_KeepsEndTime(rows, outage) ==
    [ i \in DOMAIN rows |->
        IF Some(i) = outage.id
        THEN [ rows[i] EXCEPT !.affected_targets = outage.affected_targets,
                              !.failing_hop = outage.failing_hop,
                              !.failing_hop_ip = outage.failing_hop_ip,
                              !.notes = outage.notes ]
        ELSE rows[i] ]

update_outage(rows, outage) ==
    [ i \in DOMAIN rows |->
        IF Some(i) = outage.id
        THEN [ rows[i] EXCEPT !.end_time = outage.end_time,
                              !.duration_secs = outage.duration_secs,
                              !.affected_targets = outage.affected_targets,
                              !.failing_hop = outage.failing_hop,
                              !.failing_hop_ip = outage.failing_hop_ip,
                              !.notes = outage.notes ]
        ELSE rows[i] ]

\* ------------------------------------------------------------------ state
VARIABLES
    tracker,    \* the ConnectivityTracker
    now,        \* the clock Utc::now() reads
    result,     \* the PingResult of the last process() call (None before it)
    event,      \* the StateEvent the last process() call returned
    pre,        \* the tracker's state and outage slot before that call, and its time
    hist,       \* what the calls so far looked like (history, read by no action)
    targets,    \* cmd_start: the configured targets, in configuration order
    pc,         \* cmd_start: "recv" at the select!, "trace" awaiting analyzer.trace()
    current_outage_id,  \* cmd_start: the row id of the outage being recorded
    trace_result,       \* cmd_start: the TracerouteResult of the Offline arm just run
    insert_result,      \* cmd_start: what insert_outage returned in that arm:
                        \* Some("Ok"), Some("Err"); None when it was not called
    db_outages,         \* the outages table of the database
    update_failed,      \* the row ids for which update_outage has returned Err
    outages_opened,     \* Offline events handled so far
    diagnoses,          \* calls of analyzer.trace() that have returned
    rx_pos,             \* the place in targets of the result rx.recv() yields next
    limping,            \* the endpoint whose every probe fails (None: any outcome)
    sched_pc,           \* PingMonitor::start's task: "idle" (not run yet), "tick",
                        \* "ping" (join_all), "send" (tx.send), "done" (returned)
    probes,             \* the tick's probes, in target order: None while running
    results,            \* the results of join_all still to be sent
    chan,               \* the mpsc channel: sent, not yet received
    rx_alive,           \* the receiver has not been dropped
    ticks_due,          \* ticker: ticks it will complete without waiting
    tick_no,            \* ticks begun so far
    intervals_elapsed,  \* whole intervals elapsed since start(), counted to MaxTicks
    published,          \* every result tx.send() accepted, in order
    processed,          \* every result rx.recv() yielded from chan, in order
    trace_input,        \* a call of HopAnalyzer::trace on its own: the target and
                        \* what Command::output() gave (None: no such call)
    identified,         \* Some(what identify_failing_hop returned for trace_result)
    outage_events,      \* the kinds of the last two Offline or Recovered events
                        \* that process() returned, the latest last (history)
    healed              \* Some(place in targets of the next outcome) once the
                        \* network has healed and every probe succeeds; else None

tracker_vars == << tracker, result, event, pre, hist >>
monitor_vars == << targets, pc, current_outage_id, trace_result, insert_result,
                  db_outages, update_failed, outages_opened, diagnoses, rx_pos >>
sched_vars == << sched_pc, probes, results, chan, rx_alive, ticks_due, tick_no,
                intervals_elapsed, published >>
analyzer_vars == << trace_input, identified >>
run_vars == << outage_events, healed >>
vars == << tracker, now, result, event, pre, hist, targets, pc, current_outage_id,
           trace_result, insert_result, db_outages, update_failed, outages_opened, diagnoses, rx_pos, limping,
           sched_pc, probes, results, chan, rx_alive, ticks_due, tick_no,
           intervals_elapsed, published, processed, trace_input, identified,
           outage_events, healed >>

Results == { PingResult(a, s) : a \in {GoogleDns, Cloudflare, UnknownAddress},
                                s \in BOOLEAN }

Counters(t) ==
    { t.aggregate_failures, t.aggregate_successes } \cup
    { t.target_states[ip].consecutive_failures : ip \in DOMAIN t.target_states } \cup
    { t.target_states[ip].consecutive_successes : ip \in DOMAIN t.target_states }

LargestThreshold(config) ==
    LET ths == { config.degraded_threshold, config.offline_threshold,
                 config.recovery_threshold }
    IN  CHOOSE m \in ths : \A x \in ths : x <= m

\* The counters are u32 and grow for as long as a streak lasts; the model ends a
\* streak where a counter would pass the configuration's largest threshold by
\* more than Beyond (the smaller thresholds are passed by more).
WithinCap(t) == \A c \in Counters(t) : c <= LargestThreshold(t.config) + Beyond

AnyFailing(t) == \E ip \in DOMAIN t.target_states : is_failing(t.target_states[ip])

Configured(t, r) == r.target \in DOMAIN t.target_states

\* The scenario of test_degraded_to_offline / test_offline_to_online_recovery:
\* five failures, then two successes, of the one endpoint.
Scenario ==
    << PingResult(GoogleDns, FALSE), PingResult(GoogleDns, FALSE),
       PingResult(GoogleDns, FALSE), PingResult(GoogleDns, FALSE),
       PingResult(GoogleDns, FALSE), PingResult(GoogleDns, TRUE),
       PingResult(GoogleDns, TRUE) >>

\* History of the calls:
\*   run          the current streak of outcomes after which some endpoint is
\*                failing ("failing") or none is ("healthy"): its length, whether
\*                the tracker was Online when it began, the Degraded events in it;
\*   fail_prefix  Some(n) while all n calls since construction carried a failure;
\*   script_pos   n while the calls since construction are Scenario[1..n], else -1;
\*   flap         how much of "failure, success, failure" the last calls spell,
\*                begun with the tracker Degraded, and whether all were outcomes
\*                of configured endpoints;
\*   fails        how many of the last outcomes, counted back from the latest,
\*                were failed pings, counted up to degraded_threshold.
HistInit ==
    [ run |-> [ kind |-> "none", len |-> 0, from_online |-> TRUE, degraded_events |-> 0 ],
      fail_prefix |-> Some(0),
      script_pos |-> 0,
      flap |-> [ pos |-> 0, configured |-> TRUE ],
      fails |-> 0 ]

HistRun(h, t, out) ==
    LET kind == IF AnyFailing(out.tracker) THEN "failing" ELSE "healthy"
        d == IF out.event.kind = "Degraded" THEN 1 ELSE 0
    IN  IF kind = h.run.kind
        THEN [ h.run EXCEPT !.len = @ + 1, !.degraded_events = @ + d ]
        ELSE [ kind |-> kind, len |-> 1, from_online |-> (t.state = "Online"),
               degraded_events |-> d ]

HistFlap(h, t, r) ==
    IF h.flap.pos = 1 /\ r.success
    THEN [ pos |-> 2, configured |-> h.flap.configured /\ Configured(t, r) ]
    ELSE IF h.flap.pos = 2 /\ ~r.success
    THEN [ pos |-> 3, configured |-> h.flap.configured /\ Configured(t, r) ]
    ELSE IF ~r.success /\ t.state = "Degraded"
    THEN [ pos |-> 1, configured |-> Configured(t, r) ]
    ELSE [ pos |-> 0, configured |-> TRUE ]

HistNext(h, t, r, out) ==
    [ run |-> HistRun(h, t, out),
      fail_prefix |-> IF h.fail_prefix # None /\ ~r.success
                      THEN Some(h.fail_prefix[1] + 1) ELSE None,
      script_pos |-> IF h.script_pos >= 0 /\ h.script_pos < Len(Scenario)
                        /\ r = Scenario[h.script_pos + 1]
                     THEN h.script_pos + 1 ELSE -1,
      flap |-> HistFlap(h, t, r),
      fails |-> IF r.success THEN 0
                ELSE IF h.fails < t.config.degraded_threshold THEN h.fails + 1
                ELSE h.fails ]

\* The state cmd_start has built when it enters its loop, before
\* monitor.start(): the targets one of lists, the thresholds one of configs.
Constructed(lists, configs) ==
    /\ targets \in lists
    /\ \E config \in configs, order \in Orders(Range(targets)) :
            tracker = ConnectivityTracker_new(config, targets, order)
    /\ now = 0
    /\ result = None
    /\ event = NoChange
    /\ pre = [ state |-> "Online", current_outage |-> None, at |-> 0 ]
    /\ hist = HistInit
    /\ pc = "recv"
    /\ current_outage_id = None
    /\ trace_result = None
    /\ insert_result = None
    /\ db_outages = << >>
    /\ update_failed = {}
    /\ outages_opened = 0
    /\ diagnoses = 0
    /\ rx_pos = 1
    /\ sched_pc = "idle"
    /\ probes = << >>
    /\ results = << >>
    /\ chan = << >>
    /\ rx_alive = TRUE
    /\ ticks_due = 0
    /\ tick_no = 0
    /\ intervals_elapsed = 0
    /\ published = << >>
    /\ processed = << >>
    /\ trace_input = None
    /\ identified = None
    /\ outage_events = << >>
    /\ healed = None

Init == Constructed(TargetLists, MonitorConfigs) /\ limping = None

\* One call tracker.process(&r): the tracker and the returned event.
ProcessCall(r) ==
    LET out == process(tracker, r, now)
    IN  /\ tracker' = out.tracker
        /\ event' = out.event
        /\ result' = Some(r)
        /\ pre' = [ state |-> tracker.state,
                    current_outage |-> tracker.current_outage,
                    at |-> now ]
        /\ hist' = HistNext(hist, tracker, r, out)
        /\ UNCHANGED << now, monitor_vars, limping, analyzer_vars, sched_vars, processed >>

\* One call tracker.process(&r), by any caller of the library.
Process(r) ==
    /\ WithinCap(process(tracker, r, now).tracker)
    /\ ProcessCall(r)
    /\ UNCHANGED run_vars

\* Time passes between two reads of Utc::now().
Tick ==
    /\ now < MaxTime
    /\ now' = now + 1
    /\ UNCHANGED << tracker_vars, monitor_vars, limping, analyzer_vars, run_vars, sched_vars, processed >>

Next ==
    \/ \E r \in Results : Process(r)
    \/ Tick

Spec == Init /\ [][Next]_vars

\* ------------------------------------------------ main.rs, cmd_start's loop
\* Mutant: the traceroute spawned as a task of its own, the loop going on.
ArmAfter_Spawned(e) == "recv"

\* Where the arm for the event leaves the loop: the Offline arm awaits
\* analyzer.trace() before anything else; the others return to the select!.
ArmAfter(e) == IF e.kind = "Offline" THEN "trace" ELSE "recv"

\* The select! arm for a received ping result r, up to the first await in it:
\* tracker.process(), then the match on the event. Degraded and NoChange only
\* print; Recovered updates the recorded outage; Offline starts the traceroute.
Handled(r) ==
    LET out == process(tracker, r, now)
        recorded == current_outage_id # None /\ out.event.kind = "Recovered"
        updated == [ out.event.outage EXCEPT !.id = current_outage_id ]
    IN  /\ pc = "recv"
        /\ rx_pos' = IF rx_pos >= Len(targets) THEN 1 ELSE rx_pos + 1
        /\ out.event.kind = "Offline" => outages_opened < MaxOutages
        /\ tracker' = out.tracker
        /\ event' = out.event
        /\ result' = Some(r)
        /\ pre' = [ state |-> tracker.state,
                    current_outage |-> tracker.current_outage,
                    at |-> now ]
        /\ hist' = HistNext(hist, tracker, r, out)
        /\ pc' = ArmAfter(out.event)
        /\ outages_opened' = IF out.event.kind = "Offline"
                             THEN outages_opened + 1 ELSE outages_opened
        /\ current_outage_id' = IF out.event.kind = "Recovered"
                                THEN None ELSE current_outage_id
        /\ \/ /\ db_outages' = IF recorded
                               THEN update_outage(db_outages, updated) ELSE db_outages
              /\ update_failed' = update_failed
           \/ /\ recorded                               \* update_outage returned Err
              /\ db_outages' = db_outages
              /\ update_failed' = update_failed \cup { current_outage_id[1] }
        /\ trace_result' = None      \* a local of the Offline arm, gone with it
        /\ insert_result' = None
        /\ UNCHANGED << now, targets, diagnoses, limping, analyzer_vars, run_vars >>

\* The arm with rx left abstract: it yields each tick's results in the order
\* of the targets, one tick after the other, with any verdicts.
HandleResult(r) ==
    /\ r.target = targets[rx_pos]
    /\ WithinCap(process(tracker, r, now).tracker)
    /\ Handled(r)
    /\ UNCHANGED << sched_vars, processed >>

\* Mutant: the identified hop not recorded in outage_to_save.
WithHop_Dropped(outage, hop) == outage

\* outage_to_save: the event's outage with the hop identify_failing_hop found,
\* if it found one.
WithHop(outage, hop) ==
    IF hop # None
    THEN [ outage EXCEPT !.failing_hop = Some(hop[1][1]),
                         !.failing_hop_ip = Some(hop[1][2]) ]
    ELSE outage

\* Mutant: an outage whose traceroute found no hop is not recorded.
TraceDone_AbortsUndiagnosed ==
    /\ pc = "trace"
    /\ \E tr \in trace(targets[1]), insert_ok \in BOOLEAN :
         LET hop == identify_failing_hop(tr)
             outage_to_save == WithHop(event.outage, hop)
             id == Len(db_outages) + 1
         IN  /\ trace_result' = Some(tr)
             /\ IF hop = None
                THEN /\ insert_result' = None
                     /\ UNCHANGED << db_outages, current_outage_id, tracker >>
                ELSE IF insert_ok
                THEN /\ insert_result' = Some("Ok")
                     /\ db_outages' = insert_outage(db_outages, outage_to_save)
                     /\ current_outage_id' = Some(id)
                     /\ tracker' =
                          IF tracker.current_outage # None
                          THEN [ tracker EXCEPT !.current_outage =
                                   Some([ @[1] EXCEPT
                                     !.id = Some(id),
                                     !.failing_hop = outage_to_save.failing_hop,
                                     !.failing_hop_ip = outage_to_save.failing_hop_ip ]) ]
                          ELSE tracker
                ELSE /\ insert_result' = Some("Err")
                     /\ UNCHANGED << db_outages, current_outage_id, tracker >>
    /\ pc' = "recv"
    /\ diagnoses' = diagnoses + 1
    /\ UNCHANGED << now, result, event, pre, hist, targets, outages_opened, rx_pos,
                    update_failed, limping, analyzer_vars, run_vars, sched_vars, processed >>

\* The rest of the Offline arm, from the completion of analyzer.trace():
\* identify the failing hop, insert the outage, and on success copy the row id
\* and the hop into the tracker's current outage.
TraceDone ==
    /\ pc = "trace"
    /\ \E tr \in trace(targets[1]), insert_ok \in BOOLEAN :
         LET hop == identify_failing_hop(tr)
             outage_to_save == WithHop(event.outage, hop)
             id == Len(db_outages) + 1
         IN  /\ trace_result' = Some(tr)
             /\ IF insert_ok
                THEN /\ insert_result' = Some("Ok")
                     /\ db_outages' = insert_outage(db_outages, outage_to_save)
                     /\ current_outage_id' = Some(id)
                     /\ tracker' =
                          IF tracker.current_outage # None
                          THEN [ tracker EXCEPT !.current_outage =
                                   Some([ @[1] EXCEPT
                                     !.id = Some(id),
                                     !.failing_hop = outage_to_save.failing_hop,
                                     !.failing_hop_ip = outage_to_save.failing_hop_ip ]) ]
                          ELSE tracker
                ELSE /\ insert_result' = Some("Err")
                     /\ UNCHANGED << db_outages, current_outage_id, tracker >>
    /\ pc' = "recv"
    /\ diagnoses' = diagnoses + 1
    /\ UNCHANGED << now, result, event, pre, hist, targets, outages_opened, rx_pos,
                    update_failed, limping, analyzer_vars, run_vars, sched_vars, processed >>

MonitorTick ==
    /\ pc # "done"
    /\ now < MaxTime
    /\ now' = now + 1
    /\ UNCHANGED << tracker_vars, monitor_vars, limping, analyzer_vars, run_vars, sched_vars, processed >>

MonitorNext ==
    \/ \E r \in Results : HandleResult(r)
    \/ TraceDone
    \/ MonitorTick

\* The configurations the monitor is started on: thresholds in the expected
\* order and in the reverse of it.
StartConfigs ==
    { [ degraded_threshold |-> 1, offline_threshold |-> 2, recovery_threshold |-> 1 ],
      [ degraded_threshold |-> 2, offline_threshold |-> 1, recovery_threshold |-> 2 ] }

MonitorInit == Init /\ tracker.config \in StartConfigs

SpecMonitor == MonitorInit /\ [][MonitorNext]_vars

\* --------------------------------- monitor/ping.rs, PingMonitor::start
\* ping_target(): the PingResult of one probe, as it ended: a reply, no reply
\* (ping exited non-zero: error is what parse_error() made of its output), or
\* ping could not be run.
ProbeEndings == { "reply", "no_reply", "launch_error" }

ping_target(ip, ending) ==
    [ target |-> ip,
      success |-> (ending = "reply"),
      error |-> CASE ending = "reply" -> None
                  [] ending = "no_reply" -> Some("parse_error")
                  [] ending = "launch_error" -> Some("Failed to execute ping") ]

\* Mutant: the results handed back last probe first.
join_all_Reversed(ps) == [ i \in DOMAIN ps |-> ps[Len(ps) + 1 - i][1] ]

\* futures::future::join_all: the outputs in the order of the futures.
join_all(ps) == [ i \in DOMAIN ps |-> ps[i][1] ]

\* tokio::time::interval(period): the first tick completes at once, the later
\* ones a period apart; a tick that was missed is made up for (Burst).
interval_first_due == 1

\* Mutant: the first tick one period after the start (interval_at).
Start_FirstTickAfterPeriod ==
    /\ sched_pc = "idle"
    /\ sched_pc' = "tick"
    /\ ticks_due' = 0
    /\ UNCHANGED << tracker_vars, monitor_vars, now, limping, analyzer_vars, run_vars, processed, probes,
                    results, chan, rx_alive, tick_no, intervals_elapsed, published >>

\* monitor.start(): the channel made, the task spawned; the task makes its ticker.
Start ==
    /\ sched_pc = "idle"
    /\ sched_pc' = "tick"
    /\ ticks_due' = interval_first_due
    /\ UNCHANGED << tracker_vars, monitor_vars, now, limping, analyzer_vars, run_vars, processed, probes,
                    results, chan, rx_alive, tick_no, intervals_elapsed, published >>

\* One period of the ticker's clock goes by.
IntervalElapses ==
    /\ sched_pc \in { "tick", "ping", "send" }
    /\ ticks_due < MaxDue
    /\ ticks_due' = ticks_due + 1
    /\ intervals_elapsed' = IF intervals_elapsed < MaxTicks
                            THEN intervals_elapsed + 1 ELSE intervals_elapsed
    /\ UNCHANGED << tracker_vars, monitor_vars, now, limping, analyzer_vars, run_vars, processed, sched_pc,
                    probes, results, chan, rx_alive, tick_no, published >>

\* ticker.tick().await returns and the tick's probes are started, all at once;
\* with no target join_all returns at once and the for loop sends nothing.
SchedTick ==
    /\ sched_pc = "tick"
    /\ ticks_due >= 1
    /\ rx_alive => tick_no < MaxTicks
    /\ ticks_due' = ticks_due - 1
    /\ tick_no' = IF tick_no <= MaxTicks THEN tick_no + 1 ELSE tick_no
    /\ IF targets = << >>
       THEN UNCHANGED << sched_pc, probes >>
       ELSE /\ sched_pc' = "ping"
            /\ probes' = [ i \in DOMAIN targets |-> None ]
    /\ UNCHANGED << tracker_vars, monitor_vars, now, limping, analyzer_vars, run_vars, processed, results,
                    chan, rx_alive, intervals_elapsed, published >>

\* Mutant: a ping that could not be run ends the task (the error propagated).
ProbeDone_LaunchErrorAborts(i, ending) ==
    /\ sched_pc = "ping"
    /\ i \in DOMAIN probes
    /\ probes[i] = None
    /\ LET ps == [ probes EXCEPT ![i] = Some(ping_target(targets[i], ending)) ]
       IN  IF ending = "launch_error"
           THEN /\ sched_pc' = "done"
                /\ probes' = << >>
                /\ UNCHANGED results
           ELSE IF \A j \in DOMAIN ps : ps[j] # None
           THEN /\ results' = join_all(ps)
                /\ probes' = << >>
                /\ sched_pc' = "send"
           ELSE /\ probes' = ps
                /\ UNCHANGED << results, sched_pc >>
    /\ UNCHANGED << tracker_vars, monitor_vars, now, limping, analyzer_vars, run_vars, processed, chan,
                    rx_alive, ticks_due, tick_no, intervals_elapsed, published >>

\* One probe of the tick ends; the last one to end completes join_all.
ProbeDone(i, ending) ==
    /\ sched_pc = "ping"
    /\ i \in DOMAIN probes
    /\ probes[i] = None
    /\ LET ps == [ probes EXCEPT ![i] = Some(ping_target(targets[i], ending)) ]
       IN  IF \A j \in DOMAIN ps : ps[j] # None
           THEN /\ results' = join_all(ps)
                /\ probes' = << >>
                /\ sched_pc' = "send"
           ELSE /\ probes' = ps
                /\ UNCHANGED << results, sched_pc >>
    /\ UNCHANGED << tracker_vars, monitor_vars, now, limping, analyzer_vars, run_vars, processed, chan,
                    rx_alive, ticks_due, tick_no, intervals_elapsed, published >>

\* Mutant: try_send: a result that finds the channel full is let go.
Send_DropsWhenFull ==
    /\ sched_pc = "send"
    /\ IF ~rx_alive
       THEN /\ sched_pc' = "done"
            /\ results' = << >>
            /\ UNCHANGED << chan, published >>
       ELSE /\ chan' = IF Len(chan) < ChannelCapacity
                       THEN Append(chan, Head(results)) ELSE chan
            /\ published' = Append(published, Head(results))
            /\ results' = Tail(results)
            /\ sched_pc' = IF Tail(results) = << >> THEN "tick" ELSE "send"
    /\ UNCHANGED << tracker_vars, monitor_vars, now, limping, analyzer_vars, run_vars, processed, probes,
                    rx_alive, ticks_due, tick_no, intervals_elapsed >>

\* Mutant: the Err of tx.send() ignored (let _ = tx.send(..).await): the
\* result is let go and the task goes on to the next one and the next tick.
Send_IgnoresClosed ==
    /\ sched_pc = "send"
    /\ IF ~rx_alive
       THEN UNCHANGED << chan, published >>
       ELSE /\ Len(chan) < ChannelCapacity
            /\ chan' = Append(chan, Head(results))
            /\ published' = Append(published, Head(results))
    /\ results' = Tail(results)
    /\ sched_pc' = IF Tail(results) = << >> THEN "tick" ELSE "send"
    /\ UNCHANGED << tracker_vars, monitor_vars, now, limping, analyzer_vars, run_vars, processed, probes,
                    rx_alive, ticks_due, tick_no, intervals_elapsed >>

\* tx.send(result).await returns: Err once the receiver is dropped, and the
\* task returns; Ok when the channel had room (it waits while it has none).
Send ==
    /\ sched_pc = "send"
    /\ IF ~rx_alive
       THEN /\ sched_pc' = "done"
            /\ results' = << >>
            /\ UNCHANGED << chan, published >>
       ELSE /\ Len(chan) < ChannelCapacity
            /\ chan' = Append(chan, Head(results))
            /\ published' = Append(published, Head(results))
            /\ results' = Tail(results)
            /\ sched_pc' = IF Tail(results) = << >> THEN "tick" ELSE "send"
    /\ UNCHANGED << tracker_vars, monitor_vars, now, limping, analyzer_vars, run_vars, processed, probes,
                    rx_alive, ticks_due, tick_no, intervals_elapsed >>

\* ------------------------------------- cmd_start's loop on the real channel
\* rx.recv() yields the oldest result in the channel and the arm handles it.
Recv ==
    /\ rx_alive
    /\ chan # << >>
    /\ WithinCap(process(tracker, Head(chan), now).tracker)
    /\ Handled(Head(chan))
    /\ chan' = Tail(chan)
    /\ processed' = Append(processed, Head(chan))
    /\ UNCHANGED << sched_pc, probes, results, rx_alive, ticks_due, tick_no,
                    intervals_elapsed, published >>

\* Mutant: the outage closed through the tracker's own recovery path:
\* end_outage() and the state set to Online.
Shutdown_ThroughRecovery ==
    /\ pc = "recv"
    /\ rx_alive
    /\ LET open == tracker.current_outage # None
           ended == [ Outage_end(tracker.current_outage[1], now) EXCEPT
                        !.notes = Some("Monitor shutdown during outage"),
                        !.id = IF current_outage_id # None
                               THEN current_outage_id ELSE @ ]
       IN  /\ tracker' = IF open
                         THEN [ tracker EXCEPT !.current_outage = None,
                                               !.state = "Online",
                                               !.aggregate_failures = 0 ]
                         ELSE tracker
           /\ \/ /\ db_outages' = IF open /\ current_outage_id # None
                                  THEN update_outage(db_outages, ended) ELSE db_outages
                 /\ update_failed' = update_failed
              \/ /\ open /\ current_outage_id # None
                 /\ db_outages' = db_outages
                 /\ update_failed' = update_failed \cup { current_outage_id[1] }
    /\ pc' = "done"
    /\ rx_alive' = FALSE
    /\ chan' = << >>
    /\ UNCHANGED << now, result, event, pre, hist, targets, current_outage_id,
                    trace_result, insert_result, outages_opened, diagnoses, rx_pos,
                    limping, analyzer_vars, run_vars,
                    processed, sched_pc, probes, results, ticks_due, tick_no,
                    intervals_elapsed, published >>

\* The ctrl_c arm, taken at the select! (the spawned task may not have run
\* yet): an open outage is ended and noted, the recorded row updated; the loop
\* is left and cmd_start returns, dropping rx and with it whatever the channel
\* still holds.
Shutdown ==
    /\ pc = "recv"
    /\ rx_alive
    /\ LET open == tracker.current_outage # None
           ended == [ Outage_end(tracker.current_outage[1], now) EXCEPT
                        !.notes = Some("Monitor shutdown during outage"),
                        !.id = IF current_outage_id # None
                               THEN current_outage_id ELSE @ ]
       IN  /\ tracker' = IF open
                         THEN [ tracker EXCEPT !.current_outage = Some(ended) ]
                         ELSE tracker
           /\ \/ /\ db_outages' = IF open /\ current_outage_id # None
                                  THEN update_outage(db_outages, ended) ELSE db_outages
                 /\ update_failed' = update_failed
              \/ /\ open /\ current_outage_id # None      \* update_outage returned Err
                 /\ db_outages' = db_outages
                 /\ update_failed' = update_failed \cup { current_outage_id[1] }
    /\ pc' = "done"
    /\ rx_alive' = FALSE
    /\ chan' = << >>
    /\ UNCHANGED << now, result, event, pre, hist, targets, current_outage_id,
                    trace_result, insert_result, outages_opened, diagnoses, rx_pos,
                    limping, analyzer_vars, run_vars,
                    processed, sched_pc, probes, results, ticks_due, tick_no,
                    intervals_elapsed, published >>

SchedulerInit ==
    /\ Constructed(TargetLists \cup { << >> }, StartConfigs)
    /\ limping = None

SchedulerNext ==
    \/ Start
    \/ IntervalElapses
    \/ SchedTick
    \/ \E i \in DOMAIN targets, ending \in ProbeEndings : ProbeDone(i, ending)
    \/ Send
    \/ Recv
    \/ TraceDone

\* The scheduler and the loop that reads its channel, the loop never left.
SpecScheduler == SchedulerInit /\ [][SchedulerNext]_vars

CancelNext ==
    \/ SchedulerNext
    \/ Shutdown

\* The same with the loop left at Ctrl-C. The runtime runs the spawned task
\* whenever it can go on, a ping ends (ping -c 1 -W timeout), the ticker's
\* clock advances.
SpecCancel ==
    /\ SchedulerInit
    /\ [][CancelNext]_vars
    /\ WF_vars(Start)
    /\ WF_vars(IntervalElapses)
    /\ WF_vars(SchedTick)
    /\ WF_vars(\E i \in DOMAIN targets, ending \in ProbeEndings : ProbeDone(i, ending))
    /\ WF_vars(Send)

\* ----------------------------------------- cmd_start's loop, left at Ctrl-C
\* The loop of SpecMonitor with its ctrl_c arm, on the thresholds in the
\* expected order.
StopInit ==
    /\ Constructed(TargetLists,
                   { [ degraded_threshold |-> 1, offline_threshold |-> 2,
                       recovery_threshold |-> 1 ] })
    /\ limping = None

StopNext ==
    \/ MonitorNext
    \/ Shutdown

SpecStop == StopInit /\ [][StopNext]_vars

\* ------------------------------ PingMonitor::start with any holder of rx
\* The holder of the receiver start() returned takes the oldest result.
Consume ==
    /\ rx_alive
    /\ chan # << >>
    /\ chan' = Tail(chan)
    /\ processed' = Append(processed, Head(chan))
    /\ UNCHANGED << tracker_vars, monitor_vars, now, limping, analyzer_vars, run_vars, sched_pc, probes,
                    results, rx_alive, ticks_due, tick_no, intervals_elapsed,
                    published >>

\* The holder drops the receiver: the channel is closed and what it held is gone.
Drop ==
    /\ sched_pc # "idle"
    /\ rx_alive
    /\ rx_alive' = FALSE
    /\ chan' = << >>
    /\ UNCHANGED << tracker_vars, monitor_vars, now, limping, analyzer_vars, run_vars, processed, sched_pc,
                    probes, results, ticks_due, tick_no, intervals_elapsed,
                    published >>

DropNext ==
    \/ Start
    \/ IntervalElapses
    \/ SchedTick
    \/ \E i \in DOMAIN targets, ending \in ProbeEndings : ProbeDone(i, ending)
    \/ Send
    \/ Consume
    \/ Drop

\* The spawned task is run whenever it can go on, a ping ends, the ticker's
\* clock advances; the holder of rx does as it pleases.
SpecDrop ==
    /\ SchedulerInit
    /\ [][DropNext]_vars
    /\ WF_vars(Start)
    /\ WF_vars(IntervalElapses)
    /\ WF_vars(SchedTick)
    /\ WF_vars(\E i \in DOMAIN targets, ending \in ProbeEndings : ProbeDone(i, ending))
    /\ WF_vars(Send)

\* ------------------------------------------ HopAnalyzer called on its own
InnerHop == "10.0.0.1"
QuadNineName == "dns.quad9.net"

\* The report of test_parse_traceroute_with_timeouts, cut to three lines.
ScenarioReport ==
    << << "1", "192.168.1.1", "1.234", "ms" >>,
       << "2", "10.0.0.1", "5.678", "ms" >>,
       << "3", "*", "*", "*" >> >>

\* The lines a report is drawn from: answers and timeouts under the first
\* ordinals; a bare asterisk (-q 1); a blank line; the header; a line of one
\* part; an ordinal that is no u8.
ReportLineShapes ==
    { << ToString(n), ip, "1.234", "ms" >> :
        n \in 1..MaxLines, ip \in { Gateway, InnerHop, UnknownAddress } } \cup
    { << ToString(n), "*", "*", "*" >> : n \in 1..MaxLines } \cup
    { << "2", "*" >>, << "2", "10.0.0.1", "5.678", "ms" >>, << >>,
      << "traceroute", "to", "9.9.9.9" >>, << "1" >>,
      << "256", "10.0.0.1", "5.678", "ms" >> }

\* traceroute probes the path hop by hop (ttl 1, 2, ...) and prints a line for
\* each as it goes: the numbered lines of a report ascend.
InPathOrder(lines) ==
    LET numbered == SelectSeq(lines, LAMBDA l : l # << >> /\ parse_u8(l[1]) # None)
    IN  \A i, j \in DOMAIN numbered :
           i < j => u8_of[numbered[i][1]] < u8_of[numbered[j][1]]

CommandOutputs ==
    { None } \cup
    { Some(lines) :
        lines \in { ls \in UNION { [ 1..n -> ReportLineShapes ] : n \in 0..MaxLines } :
                      InPathOrder(ls) } }

\* The target as an address and as a name (traceroute -n reports addresses).
TraceTargets == { UnknownAddress, QuadNineName }

\* The TracerouteResults a caller can build (the fields are public) for a path
\* probed in order: success and the hops unrelated, a hop with any combination
\* of address and timeout flag, ordinals skipped.
GivenHops ==
    [ hop_number : 1..MaxLines, ip : { None, Some(Gateway), Some(InnerHop) },
      latency_ms : { None, Some(1234) }, timeout : BOOLEAN ]

Ascending(hops) ==
    \A i, j \in DOMAIN hops : i < j => hops[i].hop_number < hops[j].hop_number

GivenResults ==
    [ target : { GoogleDns },
      hops : { hs \in UNION { [ 1..n -> GivenHops ] : n \in 0..MaxGivenHops } :
                 Ascending(hs) },
      success : BOOLEAN ]

\* analyzer.trace(target).await, for any target and any end of the command.
TraceCall ==
    /\ trace_input = None
    /\ trace_result = None
    /\ \E target \in TraceTargets, output \in CommandOutputs :
         /\ trace_input' = Some([ target |-> target, output |-> output ])
         /\ trace_result' = Some(HopAnalyzer_trace(target, output))
    /\ UNCHANGED << tracker_vars, now, targets, pc, current_outage_id, insert_result,
                    db_outages, update_failed, outages_opened, diagnoses, rx_pos, limping, sched_vars,
                    processed, identified, run_vars >>

\* A caller builds a TracerouteResult of its own, as the tests do.
BuildResult ==
    /\ trace_input = None
    /\ trace_result = None
    /\ \E tr \in GivenResults : trace_result' = Some(tr)
    /\ UNCHANGED << tracker_vars, now, targets, pc, current_outage_id, insert_result,
                    db_outages, update_failed, outages_opened, diagnoses, rx_pos, limping, sched_vars,
                    processed, trace_input, identified, run_vars >>

\* HopAnalyzer::identify_failing_hop(&trace_result)
IdentifyFailingHop ==
    /\ trace_result # None
    /\ identified = None
    /\ identified' = Some(identify_failing_hop(trace_result[1]))
    /\ UNCHANGED << tracker_vars, now, monitor_vars, limping, sched_vars,
                    processed, trace_input, run_vars >>

TraceInit ==
    /\ Constructed({ << GoogleDns >> }, { DefaultMonitorConfig })
    /\ limping = None

TraceNext ==
    \/ TraceCall
    \/ BuildResult
    \/ IdentifyFailingHop

SpecTrace == TraceInit /\ [][TraceNext]_vars

\* ------------------------------------------- the loop with one endpoint down
\* The monitor loop fed the outcomes of a network in which the endpoint limping
\* fails every probe and every other endpoint answers every probe.
WithinLimpingCap(t) ==
    \A c \in Counters(t) : c <= LargestThreshold(t.config) + Beyond + MaxLimping

LimpingResult(r) ==
    /\ limping # None
    /\ r.target = targets[rx_pos]
    /\ r.success = (Some(r.target) # limping)
    /\ WithinLimpingCap(process(tracker, r, now).tracker)
    /\ Handled(r)
    /\ UNCHANGED << sched_vars, processed >>

\* ------------------------------------------ the tracker's outage events
\* The last two of a sequence, after e was appended.
LastTwo(events, e) ==
    IF events = << >> THEN << e >> ELSE << events[Len(events)], e >>

\* One call tracker.process(&r), its Offline or Recovered event noted.
LoggedProcess(r) ==
    /\ WithinCap(process(tracker, r, now).tracker)
    /\ ProcessCall(r)
    /\ outage_events' = IF event'.kind \in { "Offline", "Recovered" }
                        THEN LastTwo(outage_events, event'.kind)
                        ELSE outage_events
    /\ UNCHANGED healed

EventsNext == \E r \in Results : LoggedProcess(r)

SpecEvents == Init /\ [][EventsNext]_vars

\* --------------------------------------------- the tracker after a heal
\* Any outcomes are processed until the network heals; from then on every
\* probe succeeds, and the scheduler's rounds (ping.rs 50-67: one outcome per
\* target and tick, in target order) hand every configured endpoint's success
\* to process() in turn, starting anywhere in a round.
WithinHealingCap(t) ==
    \A c \in Counters(t) :
        c <= LargestThreshold(t.config) + t.config.recovery_threshold
                + Beyond + MaxHealing

BeforeHeal(r) ==
    /\ healed = None
    /\ Process(r)

Heal ==
    /\ healed = None
    /\ \E i \in DOMAIN targets : healed' = Some(i)
    /\ UNCHANGED << tracker_vars, now, monitor_vars, limping, analyzer_vars,
                    sched_vars, processed, outage_events >>

AfterHeal ==
    /\ healed # None
    /\ ProcessCall(PingResult(targets[healed[1]], TRUE))
    /\ WithinHealingCap(tracker')
    /\ healed' = Some(IF healed[1] >= Len(targets) THEN 1 ELSE healed[1] + 1)
    /\ UNCHANGED outage_events

HealingNext ==
    \/ \E r \in Results : BeforeHeal(r)
    \/ Heal
    \/ AfterHeal

HealingInit == Init /\ tracker.config \in StartConfigs

\* The scheduler keeps ticking and the loop keeps processing what it is sent.
SpecHealing == HealingInit /\ [][HealingNext]_vars /\ WF_vars(AfterHeal)

LimpingInit ==
    /\ Constructed(TargetLists, MonitorConfigs)
    /\ limping \in { Some(ip) : ip \in Range(targets) }

LimpingNext ==
    \/ \E r \in Results : LimpingResult(r)
    \/ TraceDone

\* Results keep arriving and a traceroute returns (it has its own timeout).
SpecLimping ==
    /\ LimpingInit
    /\ [][LimpingNext]_vars
    /\ WF_vars(\E r \in Results : LimpingResult(r))
    /\ WF_vars(TraceDone)

\* ----------------------------------------------------------------- claims
Called == result # None

Thr == tracker.config

FailingSet(t) == { ip \in DOMAIN t.target_states : is_failing(t.target_states[ip]) }

\* C1: whatever the thresholds and their order, one process() call moves the
\* state only along Online->Degraded, Degraded->Online, Degraded->Offline or
\* Offline->Online (or leaves it): never Online->Offline, never Offline->Degraded.
C1_OnlyTableEdges ==
    Called =>
        \/ pre.state = tracker.state
        \/ << pre.state, tracker.state >> \in
              { << "Online", "Degraded" >>, << "Degraded", "Online" >>,
                << "Degraded", "Offline" >>, << "Offline", "Online" >> }

\* C1 witness: with offline_threshold below degraded_threshold the tracker has
\* gone Degraded->Offline (the failures that made it Degraded already exceed
\* the offline threshold, and still it passed through Degraded).
C1_Witness ==
    /\ Called
    /\ Thr.offline_threshold < Thr.degraded_threshold
    /\ pre.state = "Degraded"
    /\ tracker.state = "Offline"

\* C2: from a fresh tracker, after N >= 1 calls that all carried a failure,
\* with N < degraded_threshold, the state is Online and the call returned
\* NoChange (so did every earlier one: each prefix is such a sequence too).
C2_BelowDegradedThresholdOnline ==
    (/\ hist.fail_prefix # None
     /\ hist.fail_prefix[1] >= 1
     /\ hist.fail_prefix[1] < Thr.degraded_threshold)
    => (tracker.state = "Online" /\ event = NoChange)

\* C2 witness: two failures in, under a degraded_threshold of 3.
C2_Witness ==
    /\ hist.fail_prefix = Some(2)
    /\ Thr.degraded_threshold = 3
    /\ tracker.aggregate_failures = 2
    /\ tracker.state = "Online"

\* C3: in a streak of aggregate-failure outcomes that began with the tracker
\* Online, the Degraded event is returned exactly once: by the outcome that
\* makes the streak degraded_threshold long; every earlier outcome returns
\* NoChange and no later outcome of the streak returns Degraded again.
C3_DegradedOnceAtThreshold ==
    (hist.run.kind = "failing" /\ hist.run.from_online) =>
        /\ hist.run.len < Thr.degraded_threshold =>
              (event = NoChange /\ hist.run.degraded_events = 0)
        /\ hist.run.len = Thr.degraded_threshold => event.kind = "Degraded"
        /\ hist.run.len >= Thr.degraded_threshold => hist.run.degraded_events = 1
        /\ hist.run.len > Thr.degraded_threshold => event.kind # "Degraded"

\* C3 witness: a streak that began Online has gone past degraded_threshold 3.
C3_Witness ==
    /\ hist.run.kind = "failing"
    /\ hist.run.from_online
    /\ Thr.degraded_threshold = 3
    /\ hist.run.len = 4
    /\ hist.run.degraded_events = 1

\* C4 as stated: recovery to Online from Degraded or Offline only by the outcome
\* that completes recovery_threshold consecutive all-healthy outcomes; every
\* failing outcome leaves aggregate_successes at 0; with recovery_threshold 2,
\* failure, success, failure leaves a Degraded tracker in Degraded.
C4_AsStated ==
    /\ (Called /\ pre.state \in {"Degraded", "Offline"} /\ tracker.state = "Online")
          => (hist.run.kind = "healthy" /\ hist.run.len = Thr.recovery_threshold)
    /\ (Called /\ ~result[1].success) => tracker.aggregate_successes = 0
    /\ (hist.flap.pos = 3 /\ Thr.recovery_threshold = 2)
          => tracker.state = "Degraded"

\* C4 amended: recovery to Online from Degraded or Offline only by the outcome
\* that completes recovery_threshold consecutive all-healthy outcomes; a failing
\* outcome of a configured endpoint leaves aggregate_successes at 0; with
\* recovery_threshold 2, failure, success, failure of configured endpoints
\* never leaves a Degraded tracker Online (it is Degraded, or Offline when one
\* of the failures took aggregate_failures to offline_threshold).
C4_RecoveryNeedsFullHealthyStreak ==
    /\ (Called /\ pre.state \in {"Degraded", "Offline"} /\ tracker.state = "Online")
          => (hist.run.kind = "healthy" /\ hist.run.len = Thr.recovery_threshold)
    /\ (Called /\ ~result[1].success /\ Configured(tracker, result[1]))
          => tracker.aggregate_successes = 0
    /\ (hist.flap.pos = 3 /\ hist.flap.configured /\ Thr.recovery_threshold = 2)
          => tracker.state \in {"Degraded", "Offline"}

\* C4 witness: the flap of test_flap_prevention has been played to a Degraded
\* tracker under recovery_threshold 2 and the tracker is still Degraded.
C4_Witness ==
    /\ hist.flap.pos = 3
    /\ hist.flap.configured
    /\ Thr.recovery_threshold = 2
    /\ tracker.state = "Degraded"
    /\ tracker.aggregate_successes = 0

\* C5: the tracker holds at most one open Outage: one slot, which a process()
\* call that finds it occupied either leaves as it is or empties, never
\* overwrites; end_outage on an empty slot changes nothing and returns None.
C5_SingleOutageSlot ==
    /\ Len(tracker.current_outage) <= 1
    /\ (Called /\ pre.current_outage # None)
          => tracker.current_outage \in { None, pre.current_outage }
    /\ tracker.current_outage = None
          => end_outage(tracker, now) = [ tracker |-> tracker, ret |-> None ]

\* C5 witness: failures keep arriving past offline_threshold while the tracker
\* is Offline, and the slot still holds the Outage it held before the call.
C5_Witness ==
    /\ Called
    /\ pre.state = "Offline"
    /\ pre.current_outage # None
    /\ tracker.current_outage = pre.current_outage
    /\ tracker.aggregate_failures > Thr.offline_threshold
    /\ now > pre.current_outage[1].start_time

OneEndpointDefaults ==
    /\ Thr = DefaultMonitorConfig
    /\ DOMAIN tracker.target_states = { GoogleDns }

\* C6: thresholds 3/5/2, one endpoint: five failures return NoChange, NoChange,
\* Degraded, NoChange, Offline and leave an Outage open; a success then returns
\* NoChange with the state still Offline; one more returns Recovered, the
\* Outage closed and the state Online.
C6_Scenario ==
    OneEndpointDefaults =>
        /\ hist.script_pos \in {1, 2} => (event = NoChange /\ tracker.state = "Online")
        /\ hist.script_pos = 3 => (event.kind = "Degraded" /\ tracker.state = "Degraded")
        /\ hist.script_pos = 4 => (event = NoChange /\ tracker.state = "Degraded")
        /\ hist.script_pos = 5 =>
              /\ event.kind = "Offline"
              /\ tracker.state = "Offline"
              /\ tracker.current_outage # None
              /\ tracker.current_outage[1].end_time = None
        /\ hist.script_pos = 6 =>
              /\ event = NoChange
              /\ tracker.state = "Offline"
              /\ tracker.current_outage # None
        /\ hist.script_pos = 7 =>
              /\ event.kind = "Recovered"
              /\ event.outage.end_time # None
              /\ event.outage.duration_secs # None
              /\ tracker.state = "Online"
              /\ tracker.current_outage = None

\* C6 witness: the whole scenario has been played.
C6_Witness ==
    /\ OneEndpointDefaults
    /\ hist.script_pos = 7
    /\ event.kind = "Recovered"

\* C7: the call that moves Degraded->Offline returns the Offline event; its
\* Outage lists exactly the endpoints with consecutive_failures > 0 at that
\* call, each once, has no end_time, and is the Outage now in the slot.
C7_OfflineOpensOutage ==
    (Called /\ pre.state = "Degraded" /\ tracker.state = "Offline") =>
        /\ event.kind = "Offline"
        /\ Range(event.outage.affected_targets) = FailingSet(tracker)
        /\ Len(event.outage.affected_targets) = Cardinality(FailingSet(tracker))
        /\ event.outage.start_time = pre.at
        /\ event.outage.end_time = None
        /\ event.outage.duration_secs = None
        /\ pre.current_outage = None
        /\ tracker.current_outage = Some(event.outage)

\* C7 witness: Degraded->Offline with two endpoints configured and only one failing.
C7_Witness ==
    /\ Called
    /\ pre.state = "Degraded"
    /\ tracker.state = "Offline"
    /\ Cardinality(DOMAIN tracker.target_states) = 2
    /\ Cardinality(FailingSet(tracker)) = 1
    /\ event.kind = "Offline"

SameOutageButEnd(o, p) ==
    /\ o.id = p.id
    /\ o.start_time = p.start_time
    /\ o.affected_targets = p.affected_targets
    /\ o.failing_hop = p.failing_hop
    /\ o.failing_hop_ip = p.failing_hop_ip
    /\ o.notes = p.notes

\* C8: the call that moves Offline->Online returns the Recovered event carrying
\* the Outage that was in the slot, now with end_time and duration_secs set,
\* and leaves the slot empty.
C8_RecoveredClosesOutage ==
    (Called /\ pre.state = "Offline" /\ tracker.state = "Online") =>
        /\ event.kind = "Recovered"
        /\ pre.current_outage # None
        /\ SameOutageButEnd(event.outage, pre.current_outage[1])
        /\ pre.current_outage[1].end_time = None
        /\ event.outage.end_time = Some(pre.at)
        /\ event.outage.duration_secs = Some(pre.at - event.outage.start_time)
        /\ tracker.current_outage = None

\* C8 witness: an outage that lasted has been closed by Offline->Online.
C8_Witness ==
    /\ Called
    /\ pre.state = "Offline"
    /\ tracker.state = "Online"
    /\ event.kind = "Recovered"
    /\ event.outage.duration_secs = Some(1)

\* C9: the call that moves Degraded->Online returns NoChange; the slot is
\* empty before it and after it.
C9_DegradedRecoveryNoOutage ==
    (Called /\ pre.state = "Degraded" /\ tracker.state = "Online") =>
        /\ event = NoChange
        /\ pre.current_outage = None
        /\ tracker.current_outage = None

\* C9 witness: Degraded->Online has happened on the second all-healthy outcome.
C9_Witness ==
    /\ Called
    /\ pre.state = "Degraded"
    /\ tracker.state = "Online"
    /\ tracker.aggregate_successes = Thr.recovery_threshold
    /\ Thr.recovery_threshold = 2

Diagnosed == pc = "recv" /\ trace_result # None /\ event.kind = "Offline"

HopNumber(hop) == IF hop = None THEN None ELSE Some(hop[1][1])
HopAddress(hop) == IF hop = None THEN None ELSE Some(hop[1][2])

C11_AggregateUpdatedEveryCall ==
    [][ hist' # hist =>
          IF AnyFailing(tracker')
          THEN /\ tracker'.aggregate_successes = 0
               /\ tracker'.aggregate_failures = tracker.aggregate_failures + 1
          ELSE /\ tracker'.aggregate_failures = 0
               /\ tracker'.aggregate_successes = tracker.aggregate_successes + 1
      ]_vars

\* C11 witness: an Offline tracker has counted an all-healthy outcome and an
\* earlier failing streak without any transition firing at the last call.
C11_Witness ==
    /\ Called
    /\ pre.state = "Offline"
    /\ tracker.state = "Offline"
    /\ event = NoChange
    /\ tracker.aggregate_successes = 1
    /\ tracker.aggregate_failures = 0

LastOutcomeFailed(ts) == ts.last_result # None /\ ~ts.last_result[1].success

\* C12: a process() call for a configured endpoint sets that endpoint's
\* consecutive_failures to 0 and adds one to consecutive_successes on success,
\* the inverse on failure, and touches no other endpoint; so an endpoint is
\* failing exactly when its most recent outcome was a failure, and one with no
\* outcome yet is not failing.
C12_EndpointUpdateRule ==
    /\ [][ (hist' # hist /\ Configured(tracker, result'[1])) =>
             LET r == result'[1]
                 old == tracker.target_states[r.target]
                 new == tracker'.target_states[r.target]
             IN  /\ r.success =>
                       /\ new.consecutive_failures = 0
                       /\ new.consecutive_successes = old.consecutive_successes + 1
                 /\ ~r.success =>
                       /\ new.consecutive_successes = 0
                       /\ new.consecutive_failures = old.consecutive_failures + 1
                 /\ new.last_result = Some(r)
                 /\ \A ip \in DOMAIN tracker.target_states \ { r.target } :
                       tracker'.target_states[ip] = tracker.target_states[ip]
         ]_vars
    /\ [](\A ip \in DOMAIN tracker.target_states :
             /\ is_failing(tracker.target_states[ip])
                   <=> LastOutcomeFailed(tracker.target_states[ip])
             /\ tracker.target_states[ip].last_result = None
                   => ~is_failing(tracker.target_states[ip]))

\* C12 witness: of two endpoints one has failed twice running, the other has
\* no outcome yet.
C12_Witness ==
    /\ Called
    /\ DOMAIN tracker.target_states = { GoogleDns, Cloudflare }
    /\ tracker.target_states[GoogleDns].consecutive_failures = 2
    /\ tracker.target_states[GoogleDns].consecutive_successes = 0
    /\ tracker.target_states[Cloudflare].last_result = None
    /\ ~is_failing(tracker.target_states[Cloudflare])

\* C13 as stated: the tracker leaves Online for Degraded only when the last
\* degraded_threshold processed outcomes were all failed pings, however many
\* endpoints are configured.
C13_AsStated ==
    (Called /\ pre.state = "Online" /\ tracker.state = "Degraded")
        => hist.fails >= Thr.degraded_threshold

LimpingFails == limping # None /\ is_failing(tracker.target_states[limping[1]])

\* C14 as stated: with one endpoint failing every probe and the others
\* answering, every processed outcome counts as an aggregate failure; the
\* tracker becomes Degraded, then Offline, and once Offline stays Offline.
C14_AsStated ==
    /\ [][ hist' # hist =>
              /\ tracker'.aggregate_failures = tracker.aggregate_failures + 1
              /\ tracker'.aggregate_successes = 0 ]_vars
    /\ [][ tracker.state = "Offline" => tracker'.state = "Offline" ]_vars
    /\ <>(tracker.state = "Degraded")
    /\ <>[](tracker.state = "Offline")

\* C14 amended: with one endpoint failing every probe and the others
\* answering, every outcome processed from that endpoint's first failure on
\* counts as an aggregate failure, whichever endpoint it is of (the successes
\* of endpoints probed before it in the first tick count as all-healthy); the
\* tracker becomes Degraded, then Offline, and once Offline stays Offline.
C14_OneEndpointDownGoesOffline ==
    /\ [][ (hist' # hist /\ LimpingFails') =>
              /\ tracker'.aggregate_failures = tracker.aggregate_failures + 1
              /\ tracker'.aggregate_successes = 0 ]_vars
    /\ [][ LimpingFails => LimpingFails' ]_vars
    /\ [][ tracker.state = "Offline" => tracker'.state = "Offline" ]_vars
    /\ [][ tracker'.state = "Offline" => tracker.state \in {"Degraded", "Offline"} ]_vars
    /\ <>(tracker.state = "Degraded")
    /\ <>[](tracker.state = "Offline")

\* C14 witness: of two endpoints the second fails and the first answers; the
\* tracker is Offline and has gone on counting the first one's successes as
\* aggregate failures.
C14_Witness ==
    /\ Len(targets) = 2
    /\ limping = Some(targets[2])
    /\ tracker.state = "Offline"
    /\ pre.state = "Offline"
    /\ result # None
    /\ result[1].success
    /\ tracker.target_states[targets[1]].consecutive_successes >= 2
    /\ tracker.aggregate_failures > Thr.offline_threshold

PendingDiagnosis == IF pc = "trace" THEN 1 ELSE 0

\* C15: from the process() call that returned Offline until analyzer.trace()
\* has returned for that outage the tracker processes no outcome; and one
\* diagnosis is run for each outage opened: as many have returned as outages
\* were opened, less the one still running.
C15_DiagnosisBlocksProcessing ==
    /\ [][ pc = "trace" =>
              /\ hist' = hist /\ result' = result /\ event' = event
              /\ tracker'.target_states = tracker.target_states
              /\ tracker'.aggregate_failures = tracker.aggregate_failures
              /\ tracker'.aggregate_successes = tracker.aggregate_successes
              /\ tracker'.state = tracker.state
              /\ (pc' # "trace" => diagnoses' = diagnoses + 1) ]_vars
    /\ [][ diagnoses' # diagnoses => pc = "trace" ]_vars
    /\ [](diagnoses + PendingDiagnosis = outages_opened)
    /\ [](pc = "trace" => event.kind = "Offline")

\* C15 witness: an outage was opened and diagnosed, and the loop has gone on
\* to process the next outcome.
C15_Witness ==
    /\ outages_opened = 1
    /\ diagnoses = 1
    /\ pc = "recv"
    /\ trace_result = None
    /\ pre.state = "Offline"

\* C16: every result the scheduler has published is handed to process() once
\* and in the order published, however far the loop lags behind (the channel
\* full, a traceroute running): at any moment the results processed, followed
\* by those waiting in the channel, are exactly the results published; the
\* tracker's last call was for the last of the processed.
C16_PublishedHandedOverInOrder ==
    /\ published = processed \o chan
    /\ Len(chan) <= ChannelCapacity
    /\ processed # << >> => result = Some(processed[Len(processed)])
    /\ processed = << >> => result = None

\* C16 witness: the channel is full while the traceroute of an outage runs,
\* with the results of two ticks published and half of them processed.
C16_Witness ==
    /\ pc = "trace"
    /\ Len(chan) = ChannelCapacity
    /\ Len(published) = 4
    /\ Len(processed) = 2

SlotOf(i) == ((i - 1) % Len(targets)) + 1

\* C17: the results are published tick by tick, each tick's in the order of
\* the configured targets; the probes of a tick are started only when every
\* result of the ticks before it has been published, and the results still to
\* send are the rest of the current tick's.
C17_TicksInOrderNeverOverlap ==
    /\ \A i \in DOMAIN published : published[i].target = targets[SlotOf(i)]
    /\ sched_pc = "ping" =>
          /\ Len(published) = (tick_no - 1) * Len(targets)
          /\ results = << >>
    /\ sched_pc = "send" =>
          /\ Len(published) + Len(results) = tick_no * Len(targets)
          /\ probes = << >>
    /\ sched_pc \in { "idle", "tick" } => (probes = << >> /\ results = << >>)

\* C17 witness: the second tick's probes are running, the second endpoint's
\* ended and the first endpoint's not, with the first tick's results published.
C17_Witness ==
    /\ sched_pc = "ping"
    /\ tick_no = 2
    /\ Len(targets) = 2
    /\ Len(published) = 2
    /\ probes[1] = None
    /\ probes[2] # None

\* C18: with the receiver alive the scheduler's task never ends, and every tick
\* it completes has published one result for each configured endpoint, also
\* for the probes that failed; a probe that could not be run is published as a
\* failure with its reason, like any failed probe.
C18_EveryTickPublishesEveryEndpoint ==
    rx_alive =>
        /\ sched_pc # "done"
        /\ sched_pc = "tick" => Len(published) = tick_no * Len(targets)
        /\ \A i \in DOMAIN published :
              /\ published[i].target = targets[SlotOf(i)]
              /\ published[i].success <=> published[i].error = None

\* C18 witness: two ticks completed for two endpoints, the first probe of the
\* first tick one that could not be run, the first probe of the second tick
\* one that got no reply.
C18_Witness ==
    /\ rx_alive
    /\ sched_pc = "tick"
    /\ tick_no = 2
    /\ Len(targets) = 2
    /\ Len(published) = 4
    /\ published[1] = ping_target(targets[1], "launch_error")
    /\ published[2].success
    /\ published[3] = ping_target(targets[1], "no_reply")

\* C19 as stated: no probe is started before one full interval has elapsed
\* since start().
C19_AsStated == tick_no >= 1 => intervals_elapsed >= 1

\* C19 amended: the first tick is due as soon as the task has made its ticker
\* and fires without waiting; only the later ticks wait: the tick after the
\* k-th is not begun before k whole intervals have elapsed since start().
C19_FirstTickAtStart ==
    /\ (sched_pc = "tick" /\ tick_no = 0) => ticks_due >= 1
    /\ tick_no <= intervals_elapsed + 1
    /\ ticks_due <= intervals_elapsed + 1

\* C19 witness: the probes of the first tick are running and no interval has
\* elapsed yet.
C19_Witness ==
    /\ sched_pc = "ping"
    /\ tick_no = 1
    /\ intervals_elapsed = 0

\* C20 as stated: once the receiver is dropped the scheduler's task ends,
\* whatever the configured targets.
C20_AsStated == (~rx_alive) ~> (sched_pc = "done")

NewTick == ticks_due' < ticks_due

Launches == sched_pc # "ping" /\ sched_pc' = "ping"

\* C21 as stated: once the receiver is dropped the scheduler begins no tick
\* and starts no probe.
C21_AsStated == [][ ~rx_alive => (~NewTick /\ ~Launches) ]_vars

\* C21 amended: the task learns that the receiver is dropped from its next
\* tx.send(): a tick that comes due before that is begun and its probes are
\* started, one for each target. Once the task is past ticker.tick() with the
\* receiver dropped it does not come back to it: the first send ends the task,
\* nothing more is published, and the ended task begins no tick and starts no
\* probe. So at most one round of probes is started after the drop.
C21_OneMoreRoundAtMost ==
    /\ [][ Launches => (sched_pc = "tick" /\ NewTick
                        /\ Len(probes') = Len(targets)) ]_vars
    /\ [][ (~rx_alive /\ sched_pc # "tick") => sched_pc' # "tick" ]_vars
    /\ [][ (~rx_alive /\ sched_pc = "send" /\ results' # results)
              => sched_pc' = "done" ]_vars
    /\ [][ ~rx_alive => published' = published ]_vars
    /\ [][ sched_pc = "done" =>
              (sched_pc' = "done" /\ ~NewTick /\ probes' = << >>) ]_vars
    /\ [](sched_pc = "done" => ~rx_alive)

\* C21 witness: the probes of a tick begun after the receiver was dropped are
\* running (with the receiver alive no tick after tick MaxTicks is begun).
C21_Witness ==
    /\ ~rx_alive
    /\ sched_pc = "ping"
    /\ tick_no = MaxTicks + 1
    /\ Len(probes) = 2

Analysed == trace_result # None /\ identified # None

Responding(tr) ==
    { i \in DOMAIN tr.hops : ~tr.hops[i].timeout /\ tr.hops[i].ip # None }

\* C22: identify_failing_hop returns None for every trace result that reached
\* its target, whatever its hops, and for every trace result whose hops all
\* timed out, a result with no hops among them.
C22_NoHopWhenReachedOrAllTimeouts ==
    Analysed =>
        LET tr == trace_result[1]
        IN  /\ tr.success => identified[1] = None
            /\ (\A i \in DOMAIN tr.hops : tr.hops[i].timeout) => identified[1] = None

\* C22 witness: a result that reached its target and has a responding hop has
\* been analysed.
C22_Witness ==
    /\ Analysed
    /\ trace_result[1].success
    /\ Responding(trace_result[1]) # {}
    /\ identified = Some(None)

HopAt(tr, i) == Some(<< tr.hops[i].hop_number, tr.hops[i].ip[1] >>)

HopLines(lines) ==
    SelectSeq(lines, LAMBDA l : Len(l) >= 2 /\ parse_u8(l[1]) # None)

\* C24: for every trace that trace() produces, success (reached_target) is
\* true exactly when the last hop parsed has an address and that address is
\* the target string, character for character: the last hop line of the report
\* carries the target after its ordinal. It is false when there is no hop
\* (traceroute not run, or no hop line in its report) and when the last hop is
\* a timeout.
C24_ReachedIffLastHopIsTarget ==
    (trace_input # None /\ trace_result # None) =>
        LET tr == trace_result[1]
            target == trace_input[1].target
            output == trace_input[1].output
            last == tr.hops[Len(tr.hops)]
        IN  /\ tr.success <=>
                  (tr.hops # << >> /\ last.ip # None /\ last.ip[1] = target)
            /\ tr.hops = << >> => ~tr.success
            /\ (tr.hops # << >> /\ last.timeout) => ~tr.success
            /\ output = None => tr.hops = << >>
            /\ output # None =>
                  LET hop_lines == HopLines(output[1])
                  IN  /\ Len(tr.hops) = Len(hop_lines)
                      /\ tr.success <=>
                            /\ hop_lines # << >>
                            /\ hop_lines[Len(hop_lines)][2] = target

\* C24 witness: the first hop timed out and the second, the last, answered
\* from the target.
C24_Witness ==
    /\ trace_input # None
    /\ trace_result # None
    /\ trace_result[1].success
    /\ trace_result[1].hops = << TimeoutHop(1), RespondingHop(2, UnknownAddress, Some(1234)) >>

\* C25: the report of the three lines "1 192.168.1.1 1.234 ms",
\* "2 10.0.0.1 5.678 ms", "3 * * *", traced for 9.9.9.9, is parsed into three
\* hops in the order of the lines, two responding and one timeout, with
\* success (reached_target) false; identify_failing_hop on that result returns
\* (2, "10.0.0.1").
C25_Scenario ==
    trace_input = Some([ target |-> "9.9.9.9", output |-> Some(ScenarioReport) ]) =>
        /\ trace_result =
              Some([ target |-> "9.9.9.9",
                     hops |-> << RespondingHop(1, "192.168.1.1", Some(1234)),
                                 RespondingHop(2, "10.0.0.1", Some(5678)),
                                 TimeoutHop(3) >>,
                     success |-> FALSE ])
        /\ identified # None => identified = Some(Some(<< 2, "10.0.0.1" >>))

\* C25 witness: that report has been parsed and its failing hop identified.
C25_Witness ==
    /\ trace_input = Some([ target |-> "9.9.9.9", output |-> Some(ScenarioReport) ])
    /\ Len(trace_result[1].hops) = 3
    /\ identified # None

Undiagnosed ==
    /\ Diagnosed
    /\ ~trace_result[1].success
    /\ Responding(trace_result[1]) = {}

\* C26: when the traceroute of an outage could not be run or none of its hops
\* answered, no failing hop is identified and the Offline arm goes on to
\* record the outage as it does for a diagnosed one: insert_outage is called,
\* the tracker stays Offline with its Outage open and without a failing hop,
\* and the row inserted (if the database took it) is the event's Outage with
\* failing_hop and failing_hop_ip unset.
C26_UndiagnosedOutageStillRecorded ==
    Undiagnosed =>
        /\ identify_failing_hop(trace_result[1]) = None
        /\ insert_result # None
        /\ tracker.state = "Offline"
        /\ tracker.current_outage # None
        /\ tracker.current_outage[1].end_time = None
        /\ tracker.current_outage[1].failing_hop = None
        /\ tracker.current_outage[1].failing_hop_ip = None
        /\ insert_result = Some("Ok") =>
              /\ current_outage_id = Some(Len(db_outages))
              /\ db_outages[Len(db_outages)] =
                    [ event.outage EXCEPT !.id = current_outage_id ]
              /\ db_outages[Len(db_outages)].failing_hop = None
              /\ db_outages[Len(db_outages)].end_time = None
              /\ tracker.current_outage[1] = db_outages[Len(db_outages)]
        /\ insert_result = Some("Err") =>
              /\ current_outage_id = None
              /\ tracker.current_outage = Some(event.outage)

\* C26 witness: traceroute gave no hop at all and the outage is in the table,
\* open and without a failing hop.
C26_Witness ==
    /\ Undiagnosed
    /\ trace_result[1].hops = << >>
    /\ insert_result = Some("Ok")
    /\ Len(db_outages) = 1
    /\ db_outages[1].failing_hop = None
    /\ tracker.current_outage # None

ShutdownStep == pc # "done" /\ pc' = "done"

ShutdownNote == Some("Monitor shutdown during outage")

\* C27: Ctrl-C with an Outage open: before the loop is left the Outage in the
\* tracker's slot gets end_time = now, duration_secs = now - start_time and the
\* shutdown note, its other fields kept, and the row recorded for it is
\* updated to that (unless update_outage fails or no row was recorded). This
\* is done by cmd_start on current_outage_mut(), not by process(): the
\* tracker's state, counters and endpoint states stay as they were and no
\* event is produced. With no Outage open the tracker and the table are left
\* as they were. While the loop runs the Outage in the slot is open.
C27_ShutdownClosesOpenOutage ==
    /\ [][ ShutdownStep =>
             /\ tracker'.state = tracker.state
             /\ tracker'.aggregate_failures = tracker.aggregate_failures
             /\ tracker'.aggregate_successes = tracker.aggregate_successes
             /\ tracker'.target_states = tracker.target_states
             /\ hist' = hist /\ event' = event /\ result' = result
             /\ IF tracker.current_outage # None
                THEN LET open == tracker.current_outage[1]
                         closed == tracker'.current_outage[1]
                     IN  /\ tracker'.current_outage # None
                         /\ closed.end_time = Some(now)
                         /\ closed.duration_secs = Some(now - open.start_time)
                         /\ closed.notes = ShutdownNote
                         /\ closed = [ open EXCEPT !.end_time = closed.end_time,
                                                   !.duration_secs = closed.duration_secs,
                                                   !.notes = closed.notes ]
                         /\ IF current_outage_id # None
                               /\ current_outage_id[1] \notin update_failed'
                            THEN /\ Len(db_outages') = Len(db_outages)
                                 /\ db_outages'[current_outage_id[1]] = closed
                                 /\ \A i \in DOMAIN db_outages :
                                       i # current_outage_id[1] =>
                                           db_outages'[i] = db_outages[i]
                            ELSE db_outages' = db_outages
                ELSE /\ tracker' = tracker
                     /\ db_outages' = db_outages
      ]_vars
    /\ [](pc # "done" =>
            (tracker.current_outage # None =>
                tracker.current_outage[1].end_time = None))

\* C27 witness: the loop was left with the tracker Offline and its recorded
\* Outage closed by the shutdown, in the slot and in the table.
C27_Witness ==
    /\ pc = "done"
    /\ tracker.state = "Offline"
    /\ tracker.current_outage # None
    /\ tracker.current_outage[1].end_time # None
    /\ tracker.current_outage[1].notes = ShutdownNote
    /\ current_outage_id = Some(1)
    /\ db_outages[1].end_time = tracker.current_outage[1].end_time
    /\ db_outages[1].notes = ShutdownNote

RecoveredStep == hist' # hist /\ event'.kind = "Recovered"

\* C28: when process() returns Recovered and a row was recorded for the outage
\* at its Offline event, the loop writes the event's closed Outage to that
\* row, the one that held the same outage still open, and to no other, and
\* forgets the row id; with no row recorded it writes nothing. So a row
\* without end_time belongs to the outage still open in the tracker, unless
\* update_outage returned Err for it.
C28_RecoveredUpdatesRecordedRow ==
    /\ [][ RecoveredStep =>
             /\ current_outage_id' = None
             /\ event'.outage.end_time # None
             /\ IF current_outage_id # None
                   /\ current_outage_id[1] \notin update_failed'
                THEN LET id == current_outage_id[1]
                     IN  /\ Len(db_outages') = Len(db_outages)
                         /\ db_outages[id].end_time = None
                         /\ db_outages[id] = tracker.current_outage[1]
                         /\ db_outages'[id] =
                               [ event'.outage EXCEPT !.id = Some(id) ]
                         /\ db_outages'[id] =
                               [ db_outages[id] EXCEPT
                                   !.end_time = event'.outage.end_time,
                                   !.duration_secs = event'.outage.duration_secs ]
                         /\ \A i \in DOMAIN db_outages :
                               i # id => db_outages'[i] = db_outages[i]
                ELSE db_outages' = db_outages
      ]_vars
    /\ [](\A i \in DOMAIN db_outages :
            db_outages[i].end_time = None =>
                \/ i \in update_failed
                \/ /\ current_outage_id = Some(i)
                   /\ tracker.current_outage # None
                   /\ tracker.current_outage[1].end_time = None)

\* C28 witness: an outage was recorded, has recovered, and its row carries
\* the end_time and the duration of the Recovered event.
C28_Witness ==
    /\ event.kind = "Recovered"
    /\ update_failed = {}
    /\ Len(db_outages) = 1
    /\ db_outages[1].end_time = event.outage.end_time
    /\ db_outages[1].end_time # None
    /\ db_outages[1].duration_secs = event.outage.duration_secs
    /\ current_outage_id = None

\* ------------------------------------------------------------------- C29
\* Utc::now() reads the system's wall clock, which is not monotonic: the
\* system time is set back (by hand, or by a time synchronisation step)
\* between two reads.
ClockSetBack ==
    /\ pc # "done"
    /\ now > 0
    /\ \E t \in 0..(now - 1) : now' = t
    /\ UNCHANGED << tracker_vars, monitor_vars, limping, analyzer_vars, run_vars, sched_vars, processed >>

\* The monitor loop with its shutdown, under a wall clock.
WallClockNext == StopNext \/ ClockSetBack

SpecWallClock == StopInit /\ [][WallClockNext]_vars

SlotOpen(t) == t.current_outage # None /\ t.current_outage[1].end_time = None

\* A step that puts a new Outage into the tracker's slot (Outage::new).
OpeningStep == tracker.current_outage = None /\ tracker'.current_outage # None

\* A step that closes the Outage of the slot (Outage::end): by process() on
\* recovery, which hands it out in the event, or in place at shutdown.
ClosingStep == SlotOpen(tracker) /\ ~SlotOpen(tracker')

ClosedOutage == IF tracker'.current_outage = None
                THEN event'.outage ELSE tracker'.current_outage[1]

\* C29: an Outage opened when the clock read t0 has start_time = t0 and no
\* end; start_time is kept while it is open; closed when the clock reads t1 it
\* gets end_time = t1 and duration_secs = t1 - t0 (the millisecond count the
\* code divides by 1000.0), which is not negative.
C29_AsStated ==
    [][ /\ OpeningStep =>
              /\ tracker'.current_outage[1].start_time = now
              /\ tracker'.current_outage[1].end_time = None
              /\ tracker'.current_outage[1].duration_secs = None
        /\ (SlotOpen(tracker) /\ SlotOpen(tracker')) =>
              tracker'.current_outage[1].start_time =
                  tracker.current_outage[1].start_time
        /\ ClosingStep =>
              /\ ClosedOutage.start_time = tracker.current_outage[1].start_time
              /\ ClosedOutage.end_time = Some(now)
              /\ ClosedOutage.duration_secs =
                     Some(now - tracker.current_outage[1].start_time)
              /\ ClosedOutage.duration_secs[1] >= 0
      ]_vars

\* ------------------------------------------------------------------- C30
\* The tracker as ConnectivityTracker::new returned it: no process() call yet.
NewlyCreated == result = None /\ processed = << >> /\ hist = HistInit

\* C30: a newly created tracker is Online, its outage slot is empty, both
\* aggregate counters are 0, and it holds one state per configured endpoint,
\* none of them failing (both streaks 0, no last result).
C30_NewTrackerIsOnlineAndClean ==
    NewlyCreated =>
        /\ tracker.state = "Online"
        /\ tracker.current_outage = None
        /\ tracker.aggregate_failures = 0
        /\ tracker.aggregate_successes = 0
        /\ DOMAIN tracker.target_states = Range(targets)
        /\ \A ip \in Range(targets) :
              /\ ~is_failing(tracker.target_states[ip])
              /\ tracker.target_states[ip] = TargetState_new(ip)
        /\ FailingSet(tracker) = {}

\* C30 witness: a tracker just built for two endpoints, before any outcome.
C30_Witness ==
    /\ NewlyCreated
    /\ Len(targets) = 2
    /\ Cardinality(DOMAIN tracker.target_states) = 2
    /\ tracker.state = "Online"

\* ------------------------------------------------------------------- C31
\* C31: affected_targets is a snapshot taken when the Outage is opened: the
\* Offline event and the slot hold the same Outage; a process() call that
\* finds the Outage open and leaves it open leaves it as it was, whichever
\* endpoints fail or recover meanwhile; the Outage of the Recovered event has
\* the start_time and affected_targets the slot held before the call.
C31_AffectedIsSnapshot ==
    /\ (Called /\ event.kind = "Offline") =>
          tracker.current_outage = Some(event.outage)
    /\ (Called /\ pre.current_outage # None /\ tracker.current_outage # None) =>
          /\ tracker.current_outage[1].start_time = pre.current_outage[1].start_time
          /\ tracker.current_outage[1].affected_targets =
                 pre.current_outage[1].affected_targets
          /\ tracker.current_outage = pre.current_outage
    /\ (Called /\ event.kind = "Recovered") =>
          /\ pre.current_outage # None
          /\ event.outage.start_time = pre.current_outage[1].start_time
          /\ event.outage.affected_targets = pre.current_outage[1].affected_targets

\* C31 witness: the Outage was opened with 8.8.8.8 failing; by now 8.8.8.8 has
\* recovered and 1.1.1.1 fails, and the open Outage still lists 8.8.8.8 only.
C31_Witness ==
    /\ Called
    /\ tracker.state = "Offline"
    /\ pre.current_outage # None
    /\ tracker.current_outage # None
    /\ tracker.current_outage[1].affected_targets = << GoogleDns >>
    /\ FailingSet(tracker) = { Cloudflare }

\* ------------------------------------------------------------------- C32
\* C32: a Degraded event is returned by the Online->Degraded call and by no
\* other; its list holds the addresses of the endpoints with
\* consecutive_failures > 0 after that call's endpoint update, each once, and
\* (degraded_threshold being at least 1) is not empty.
C32_DegradedListsFailingEndpoints ==
    /\ (Called /\ event.kind = "Degraded") <=>
          (Called /\ pre.state = "Online" /\ tracker.state = "Degraded")
    /\ (Called /\ event.kind = "Degraded") =>
          /\ Thr.degraded_threshold >= 1
          /\ Range(event.failing_targets) = FailingSet(tracker)
          /\ Len(event.failing_targets) = Cardinality(FailingSet(tracker))
          /\ event.failing_targets = failing_targets(tracker)
          /\ event.failing_targets # << >>

\* C32 witness: Online->Degraded with two endpoints configured, one of them
\* failing: the event lists that one only.
C32_Witness ==
    /\ Called
    /\ pre.state = "Online"
    /\ event.kind = "Degraded"
    /\ Cardinality(DOMAIN tracker.target_states) = 2
    /\ event.failing_targets = << Cloudflare >>

\* ------------------------------------------------------------------- C33
\* C33: a process() call with an outcome for address X leaves the entry of
\* every endpoint other than X as it was (both streaks and last_result; all
\* entries when X is not configured) and the set of endpoints as it was; and
\* failing_targets() returns the entries with consecutive_failures > 0, each
\* once, and no other.
C33_OtherEndpointsUntouched ==
    /\ [][ hist' # hist =>
             LET X == result'[1].target
             IN  /\ DOMAIN tracker'.target_states = DOMAIN tracker.target_states
                 /\ \A ip \in DOMAIN tracker.target_states :
                       ip # X =>
                          LET old == tracker.target_states[ip]
                              new == tracker'.target_states[ip]
                          IN  /\ new.consecutive_failures = old.consecutive_failures
                              /\ new.consecutive_successes = old.consecutive_successes
                              /\ new.last_result = old.last_result
                              /\ new.target = old.target
         ]_vars
    /\ [](LET failing == ConnectivityTracker_failing_targets(tracker)
          IN  /\ { failing[i].target : i \in DOMAIN failing } =
                    { ip \in DOMAIN tracker.target_states :
                         tracker.target_states[ip].consecutive_failures > 0 }
              /\ \A i \in DOMAIN failing :
                    /\ failing[i] = tracker.target_states[failing[i].target]
                    /\ \A j \in DOMAIN failing : failing[j] = failing[i] => j = i)

\* C33 witness (test_target_state_tracking, one step on): 8.8.8.8 has failed
\* and is the one failing entry; the outcome just processed was a success of
\* 1.1.1.1, which left the entry of 8.8.8.8 alone.
C33_Witness ==
    /\ result = Some(PingResult(Cloudflare, TRUE))
    /\ Cardinality(DOMAIN tracker.target_states) = 2
    /\ Len(ConnectivityTracker_failing_targets(tracker)) = 1
    /\ ConnectivityTracker_failing_targets(tracker)[1].target = GoogleDns
    /\ tracker.target_states[GoogleDns].consecutive_failures = 1
    /\ ~is_failing(tracker.target_states[Cloudflare])

\* ------------------------------------------------------------------- C34
\* C34: trace() always returns a result; its hops are, in the order of the
\* lines, one hop for every line of the report that has a u8 ordinal as its
\* first part and at least one more part: with "*" as the second part a
\* timeout hop (no address, no latency, timeout set), otherwise a responding
\* hop with the second part as its address; every other line (the header, a
\* blank line, a bare ordinal, an ordinal that is no u8) gives no hop. With no
\* report (the command could not be run) there is no hop.
C34_OneHopPerHopLine ==
    trace_input # None =>
        /\ trace_result # None
        /\ LET hops == trace_result[1].hops
               output == trace_input[1].output
           IN  /\ output = None => hops = << >>
               /\ output # None =>
                     LET hop_lines == HopLines(output[1])
                     IN  /\ Len(hops) = Len(hop_lines)
                         /\ \A i \in DOMAIN hop_lines :
                               LET line == hop_lines[i]
                               IN  /\ ToString(hops[i].hop_number) = line[1]
                                   /\ line[2] = "*" =>
                                         /\ hops[i].ip = None
                                         /\ hops[i].latency_ms = None
                                         /\ hops[i].timeout
                                   /\ line[2] # "*" =>
                                         /\ hops[i].ip = Some(line[2])
                                         /\ ~hops[i].timeout

\* C34 witness: a report of the header, a bare ordinal and a timeout line:
\* one hop, the timeout.
C34_Witness ==
    /\ trace_input # None
    /\ trace_input[1].output =
          Some(<< << "traceroute", "to", "9.9.9.9" >>, << "1" >>, << "2", "*" >> >>)
    /\ trace_result # None
    /\ trace_result[1].hops = << TimeoutHop(2) >>

\* ------------------------------------------------------------------- C35
\* C35: driven by process() alone, the tracker is Offline exactly when its
\* outage slot is occupied, and the Outage in the slot is open (no end_time, no
\* duration_secs); so the Offline arm, when its recovery condition holds,
\* always finds an Outage to end: no call leaves the tracker Offline with
\* that condition true.
C35_OfflineIffOutageOpen ==
    /\ tracker.state = "Offline" <=> tracker.current_outage # None
    /\ tracker.current_outage # None =>
          /\ tracker.current_outage[1].end_time = None
          /\ tracker.current_outage[1].duration_secs = None
    /\ (Called /\ pre.state = "Offline") =>
          /\ pre.current_outage # None
          /\ tracker.state = "Offline" =>
                ~(/\ FailingSet(tracker) = {}
                  /\ tracker.aggregate_successes >= Thr.recovery_threshold)
          /\ tracker.state # "Offline" => event.kind = "Recovered"

\* C35 witness: the recovery condition met in the Offline arm after a first
\* all-healthy outcome that was not enough: the slot was occupied, the Outage
\* was ended, the tracker is Online and the slot is empty.
C35_Witness ==
    /\ Called
    /\ Thr.recovery_threshold = 2
    /\ pre.state = "Offline"
    /\ pre.current_outage # None
    /\ tracker.state = "Online"
    /\ tracker.current_outage = None
    /\ tracker.aggregate_successes = 2

\* ------------------------------------------------------------------- C36
\* C36: after a process() call exactly one of aggregate_failures and
\* aggregate_successes is above 0, and it is aggregate_failures exactly when
\* some configured endpoint is failing; so (the thresholds being at least 1)
\* the recovery condition, all healthy with aggregate_successes >=
\* recovery_threshold, and the offline condition, aggregate_failures >=
\* offline_threshold, never hold in the same call.
C36_OneAggregateCounterRuns ==
    Called =>
        /\ (tracker.aggregate_failures > 0) # (tracker.aggregate_successes > 0)
        /\ tracker.aggregate_failures > 0 <=> FailingSet(tracker) # {}
        /\ tracker.aggregate_successes > 0 <=> FailingSet(tracker) = {}
        /\ ~(/\ FailingSet(tracker) = {}
             /\ tracker.aggregate_successes >= Thr.recovery_threshold
             /\ tracker.aggregate_failures >= Thr.offline_threshold)

\* C36 witness: the outcome just processed is a success of 1.1.1.1 while
\* 8.8.8.8 is failing: the call counted as an aggregate failure, the second
\* running, and aggregate_successes is 0.
C36_Witness ==
    /\ result = Some(PingResult(Cloudflare, TRUE))
    /\ FailingSet(tracker) = { GoogleDns }
    /\ tracker.aggregate_failures = 2
    /\ tracker.aggregate_successes = 0

\* ------------------------------------------------------------------- C37
\* C37: the Offline and Recovered events process() returns alternate, the
\* first being an Offline: each Offline event is the first outage event or
\* follows a Recovered, each Recovered follows an Offline; the last outage
\* event was an Offline exactly while the tracker is Offline; a call that finds
\* the tracker Offline returns no Offline event and puts no other Outage into
\* the slot, whatever it is fed.
C37_OfflineRecoveredAlternate ==
    /\ outage_events \in { << >>, << "Offline" >>, << "Offline", "Recovered" >>,
                           << "Recovered", "Offline" >> }
    /\ tracker.state = "Offline" <=>
          (outage_events # << >> /\ outage_events[Len(outage_events)] = "Offline")
    /\ (Called /\ pre.state = "Offline") =>
          /\ event.kind # "Offline"
          /\ tracker.current_outage \in { None, pre.current_outage }
          /\ tracker.state = "Offline" => event = NoChange
    /\ (Called /\ event.kind = "Recovered") => pre.state = "Offline"

\* C37 witness: a second outage has begun after the first was recovered from,
\* and failures go on arriving in it.
C37_Witness ==
    /\ outage_events = << "Recovered", "Offline" >>
    /\ pre.state = "Offline"
    /\ tracker.state = "Offline"
    /\ result # None /\ ~result[1].success
    /\ event = NoChange

\* ------------------------------------------------------------------- C38
\* C38: a process() call with an outcome whose address is not a configured
\* endpoint leaves every endpoint's entry as it was, and still counts as a
\* call: with an endpoint failing it adds one to aggregate_failures and resets
\* aggregate_successes, with none failing it adds one to aggregate_successes
\* and resets aggregate_failures, whether the outcome itself is a success or a
\* failure; the state machine then runs on these counters as for any call.
C38_UnknownAddressStillCounts ==
    [][ (hist' # hist /\ ~Configured(tracker, result'[1])) =>
          /\ tracker'.target_states = tracker.target_states
          /\ FailingSet(tracker') = FailingSet(tracker)
          /\ FailingSet(tracker) # {} =>
                /\ tracker'.aggregate_failures = tracker.aggregate_failures + 1
                /\ tracker'.aggregate_successes = 0
          /\ FailingSet(tracker) = {} =>
                /\ tracker'.aggregate_successes = tracker.aggregate_successes + 1
                /\ tracker'.aggregate_failures = 0
          /\ (tracker.state = "Online" /\ FailingSet(tracker) # {}
                /\ tracker.aggregate_failures + 1 >= Thr.degraded_threshold) =>
                   (tracker'.state = "Degraded" /\ event'.kind = "Degraded")
          /\ (tracker.state = "Offline" /\ FailingSet(tracker) = {}
                /\ tracker.aggregate_successes + 1 >= Thr.recovery_threshold) =>
                   (tracker'.state = "Online" /\ event'.kind = "Recovered")
      ]_vars

\* C38 witness: a failed outcome for 9.9.9.9, which is not configured, was
\* counted as an all-healthy call and ended the outage: the event is Recovered.
C38_Witness ==
    /\ result = Some(PingResult(UnknownAddress, FALSE))
    /\ pre.state = "Offline"
    /\ tracker.state = "Online"
    /\ event.kind = "Recovered"
    /\ tracker.aggregate_successes = 2

\* ------------------------------------------------------------------- C39
\* C39: once the network has healed, so that every outcome processed from then
\* on is a success and every configured endpoint goes on receiving outcomes,
\* the tracker, whatever state the outcomes before left it in, comes to be
\* Online with its outage slot empty and no endpoint failing, and from then on
\* stays so. (Until every failing endpoint has had its success the tracker can
\* still go from Online to Degraded and on to Offline.)
SettledOnline ==
    /\ tracker.state = "Online"
    /\ tracker.current_outage = None
    /\ FailingSet(tracker) = {}

C39_HealedNetworkComesOnline ==
    /\ (healed # None) ~> SettledOnline
    /\ [][ (healed # None /\ SettledOnline) => SettledOnline' ]_vars

\* C39 witness: after the heal the tracker has come to be Online with no
\* endpoint failing, and successes have gone on being processed in that state,
\* past the count any run before the heal reaches.
C39_Witness ==
    /\ healed # None
    /\ SettledOnline
    /\ pre.state = "Online"
    /\ Cardinality(DOMAIN tracker.target_states) = 2
    /\ tracker.aggregate_successes > LargestThreshold(Thr) + Beyond

====
